---------------------------- MODULE Spec2Model ----------------------------
(***************************************************************************)
(* A model of etyper (T-KONES/rpi-etyper): the SSD1683 e-paper driver      *)
(* (src/epd42_driver.py, class EPD42) and the typewriter application       *)
(* (src/typewriter.py, class EtyperApp).                                   *)
(*                                                                         *)
(* Time is measured in whole seconds by clock variables: instead of a      *)
(* timestamp t0 and the wall clock, the model keeps time.time() - t0,      *)
(* which is all the code ever computes from a timestamp.  Setting a        *)
(* timestamp to time.time() resets its clock variable to 0.  A clock       *)
(* variable stops counting at a cap above the threshold it is compared     *)
(* with, which no comparison of the code can tell from counting on.        *)
(***************************************************************************)
EXTENDS Integers, Sequences, FiniteSets, TLC

Min(a, b) == IF a < b THEN a ELSE b

(***************************************************************************)
(* Program constants.                                                      *)
(***************************************************************************)
FULL_REFRESH_INTERVAL == 300
CMD_SW_RESET == 18
CMD_DEEP_SLEEP == 16
CMD_DATA_ENTRY == 17
CMD_UPDATE_CTRL == 33
CMD_BORDER == 60
CMD_RAM_X == 68
CMD_RAM_Y == 69
CMD_CURSOR_X == 78
CMD_CURSOR_Y == 79
CMD_WRITE_NEW == 36
CMD_WRITE_OLD == 38
CMD_UPDATE_CTRL2 == 34
CMD_ACTIVATE == 32
UPDATE_FULL == 247
UPDATE_PARTIAL == 255
WAIT_BUSY_TIMEOUT == 30

(***************************************************************************)
(* Bounds of the model.                                                    *)
(***************************************************************************)
\* A clock variable compared with a threshold T stops counting at T + AgeSlack.
AgeSlack == 10
\* partial_count stops counting here (the code never reads it).
MaxPartialCount == 2

(***************************************************************************)
(* Images.  An image is what PIL renders and tobytes() flattens: the model *)
(* keeps what the image was drawn from, which determines its bytes.        *)
(***************************************************************************)
Image(kind, text, cursor, dirty, doc, sel) ==
    [kind |-> kind, text |-> text, cursor |-> cursor, dirty |-> dirty,
     doc |-> doc, sel |-> sel]

NoImage == Image("none", <<>>, 0, FALSE, 0, 0)
\* EPD42.clear: [color] * (width // 8 * height) with color = 0xFF
WhiteImage == Image("white", <<>>, 0, FALSE, 0, 0)
\* render_picker(sel_idx)
PickerImage(sel) == Image("picker", <<>>, 0, FALSE, 0, sel)
\* the instruction screen of _file_server_mode
FsImage == Image("fileserver", <<>>, 0, FALSE, 0, 0)

(***************************************************************************)
(* The driver object and the panel behind it, as one record:               *)
(*   partial_count       EPD42._partial_count (capped)                     *)
(*   refresh_age         time.time() - EPD42._last_full_refresh            *)
(*   panel               the panel:                                        *)
(*     dstate              the display state of the spec's data model, as  *)
(*                         the last init()/init_partial()/sleep() left it  *)
(*     ram_new, ram_old    the two RAM planes (0x24, 0x26)                 *)
(*     shown               the image the last update sequence put on glass *)
(*   sent                what the current step wrote to the panel, in      *)
(*                       order, and where in that it waited for the busy   *)
(*                       line                                              *)
(*   calls               the methods init, init_partial, display,          *)
(*                       display_partial, full_refresh, clear and sleep    *)
(*                       entered in the current step, in order of entry,   *)
(*                       those entered from another method included        *)
(*   op, arg             the driver method the current step called last    *)
(***************************************************************************)
RefreshAgeCap == FULL_REFRESH_INTERVAL + AgeSlack

\* EPD42.__init__
NewEPD ==
    [partial_count |-> 0, refresh_age |-> 0,
     panel |-> [dstate |-> "Uninitialized", ram_new |-> NoImage,
                ram_old |-> NoImage, shown |-> NoImage],
     sent |-> <<>>, calls |-> <<>>, op |-> "new", arg |-> NoImage]

\* The start of a step: nothing sent yet.
Fresh(e) == [e EXCEPT !.sent = <<>>, !.calls = <<>>, !.op = "none", !.arg = NoImage]

\* The method is entered.
Called(e, method) == [e EXCEPT !.calls = Append(@, method)]

\* What goes to the panel: a reset pulse, a command byte, a data byte, a buffer.
\* A call of _wait_busy is an item of kind "wait".
Item(kind, val) == [kind |-> kind, val |-> val, img |-> NoImage]

Bulk(buffer) == [kind |-> "bulk", val |-> 0, img |-> buffer]

\* A panel in deep sleep ignores everything but the reset line.
Listening(p) == p.dstate # "Sleeping"

PanelLatch(p, c, buffer) ==
    IF ~Listening(p) THEN p
    ELSE IF c = CMD_WRITE_NEW THEN [p EXCEPT !.ram_new = buffer]
    ELSE [p EXCEPT !.ram_old = buffer]

PanelShow(p) == IF Listening(p) THEN [p EXCEPT !.shown = p.ram_new] ELSE p

PanelSleep(p) == IF Listening(p) THEN [p EXCEPT !.dstate = "Sleeping"] ELSE p

\* _wait_busy(): whatever it returns, the caller goes on.
WaitBusy(e) == [e EXCEPT !.sent = Append(@, Item("wait", 0))]

SendCommand(e, c) == [e EXCEPT !.sent = Append(@, Item("cmd", c))]

SendData(e, b) == [e EXCEPT !.sent = Append(@, Item("data", b))]

\* _send_command(0x24 or 0x26) followed by _send_data_bulk(buffer)
WritePlane(e, c, buffer) ==
    [e EXCEPT !.sent = @ \o <<Item("cmd", c), Bulk(buffer)>>,
              !.panel = PanelLatch(@, c, buffer)]

\* 0x22, mode, 0x20: the panel runs its update sequence and shows the new plane.
Activate(e, mode) ==
    [e EXCEPT !.sent = @ \o <<Item("cmd", CMD_UPDATE_CTRL2), Item("data", mode),
                              Item("cmd", CMD_ACTIVATE)>>,
              !.panel = PanelShow(@)]

SetWindow(e) ==
    LET x == SendData(SendData(SendCommand(e, CMD_RAM_X), 0), 49)
    IN  SendData(SendData(SendData(SendData(SendCommand(x, CMD_RAM_Y), 0), 0), 43), 1)

SetCursor(e) ==
    LET x == SendData(SendCommand(e, CMD_CURSOR_X), 0)
    IN  SendData(SendData(SendCommand(x, CMD_CURSOR_Y), 0), 0)

\* reset(): the reset pulse wakes a sleeping panel; its registers are lost.
Reset(e) ==
    WaitBusy([e EXCEPT !.sent = Append(@, Item("rst", 0)),
                       !.panel.dstate = "Uninitialized"])

\* Border waveform 0x80 and update control 0x00 0x00: the partial-mode registers.
PartialRegisters(e) ==
    LET b == SendData(SendCommand(e, CMD_BORDER), 128)
    IN  SendData(SendData(SendCommand(b, CMD_UPDATE_CTRL), 0), 0)

EpdInit(e) ==
    LET r  == WaitBusy(SendCommand(Reset(Called(e, "init")), CMD_SW_RESET))
        u  == SendData(SendData(SendCommand(r, CMD_UPDATE_CTRL), 64), 0)
        b  == SendData(SendCommand(u, CMD_BORDER), 5)
        d  == SendData(SendCommand(b, CMD_DATA_ENTRY), 3)
        w  == WaitBusy(SetCursor(SetWindow(d)))
    IN  [w EXCEPT !.panel.dstate = "FullReady", !.op = "init"]

\* A slip: init_partial leaves the counter as it is.
EpdInitPartialKeepsCount(e) ==
    LET p == PartialRegisters(EpdInit(e))
    IN  [p EXCEPT !.refresh_age = 0,
                  !.panel.dstate = "PartialReady", !.op = "init_partial"]

EpdInitPartial(e) ==
    LET p == PartialRegisters(EpdInit(Called(e, "init_partial")))
    IN  [p EXCEPT !.partial_count = 0, !.refresh_age = 0,
                  !.panel.dstate = "PartialReady", !.op = "init_partial"]

EpdDisplay(e, buffer) ==
    LET n == WritePlane(Called(e, "display"), CMD_WRITE_NEW, buffer)
        o == WritePlane(n, CMD_WRITE_OLD, buffer)
        a == WaitBusy(Activate(o, UPDATE_FULL))
    IN  [a EXCEPT !.refresh_age = 0, !.partial_count = 0,
                  !.op = "display", !.arg = buffer]

\* A slip: the interval taken for minutes.
RefreshDueMinutes(e) == e.refresh_age >= FULL_REFRESH_INTERVAL \div 60

\* time.time() - self._last_full_refresh >= self._full_refresh_interval
RefreshDue(e) == e.refresh_age >= FULL_REFRESH_INTERVAL

\* A slip: the redirect forgets to go back to partial mode.
RedirectWithoutInitPartial(e, buffer) == EpdDisplay(EpdInit(e), buffer)

\* display_partial, lines 248-250: the redirect to a full refresh
RedirectToFull(e, buffer) == EpdInitPartial(EpdDisplay(EpdInit(e), buffer))

\* A slip: the partial update leaves the previous-image plane as it was.
PartialUpdateWithoutSync(e, buffer) ==
    LET w == SetCursor(SetWindow(PartialRegisters(e)))
        n == WritePlane(w, CMD_WRITE_NEW, buffer)
    IN  WaitBusy(Activate(n, UPDATE_PARTIAL))

\* display_partial, lines 253-274: the partial update
PartialUpdate(e, buffer) ==
    LET w == SetCursor(SetWindow(PartialRegisters(e)))
        n == WritePlane(w, CMD_WRITE_NEW, buffer)
        a == WaitBusy(Activate(n, UPDATE_PARTIAL))
    IN  WritePlane(SetCursor(a), CMD_WRITE_OLD, buffer)

EpdDisplayPartial(e, buffer) ==
    LET c == [Called(e, "display_partial")
                EXCEPT !.partial_count = Min(@ + 1, MaxPartialCount)]
        r == IF RefreshDue(c) THEN RedirectToFull(c, buffer)
             ELSE PartialUpdate(c, buffer)
    IN  [r EXCEPT !.op = "display_partial", !.arg = buffer]

EpdFullRefresh(e, buffer) ==
    LET r == EpdInitPartial(EpdDisplay(EpdInit(Called(e, "full_refresh")), buffer))
    IN  [r EXCEPT !.op = "full_refresh", !.arg = buffer]

EpdClear(e) == [EpdDisplay(Called(e, "clear"), WhiteImage) EXCEPT !.op = "clear"]

EpdSleep(e) ==
    [Called(e, "sleep") EXCEPT !.sent = @ \o <<Item("cmd", CMD_DEEP_SLEEP), Item("data", 1)>>,
              !.panel = PanelSleep(@),
              !.op = "sleep", !.arg = NoImage]

\* d seconds pass.
EpdAge(e, d) == [e EXCEPT !.refresh_age = Min(@ + d, RefreshAgeCap)]

(***************************************************************************)
(* The busy line and the driver's waits on it (_wait_busy), as one record: *)
(*   busy                busy.get_value() == 1                             *)
(*   call, arg           the driver method in progress ("none": none) and  *)
(*                       its buffer                                        *)
(*   due                 display_partial found the full refresh due        *)
(*   waits               the _wait_busy calls the method has still to make *)
(*   elapsed             time.time() - start in the _wait_busy in progress *)
(*   last                what the _wait_busy that returned in this step    *)
(*                       returned: "True", "False" ("none": none returned) *)
(*   timed_out           some _wait_busy of the method returned False      *)
(*   done                the method that returned in this step             *)
(*   outcome             what it gave its caller: "None" (it returned,     *)
(*                       with no value), "none" while nothing returned     *)
(***************************************************************************)
WaitElapsedCap == WAIT_BUSY_TIMEOUT + AgeSlack

NewHw ==
    [busy |-> FALSE, call |-> "none", arg |-> NoImage, due |-> FALSE, waits |-> 0,
     elapsed |-> 0, last |-> "none", timed_out |-> FALSE, done |-> "none",
     outcome |-> "none"]

\* The start of a step: nothing has returned yet.
HwFresh(h) ==
    [h EXCEPT !.last = "none", !.done = "none", !.outcome = "none",
              !.timed_out = IF h.call = "none" THEN FALSE ELSE @]

\* The number of _wait_busy calls a method makes.
WaitCalls(method, due) ==
    CASE method = "reset"           -> 1
      [] method = "init"            -> 3
      [] method = "init_partial"    -> 3
      [] method = "display"         -> 1
      [] method = "display_partial" -> IF due THEN 7 ELSE 1

\* A slip: the timeout taken for milliseconds.
WaitTimedOutMillis(h) == h.elapsed > WAIT_BUSY_TIMEOUT * 1000

\* _wait_busy, line 114: time.time() - start > timeout
WaitTimedOut(h) == h.elapsed > WAIT_BUSY_TIMEOUT

\* time.sleep(0.01), d seconds' worth of them
WaitSleep(h, d) == [h EXCEPT !.elapsed = Min(@ + d, WaitElapsedCap)]

\* What the method writes to the panel and does to the driver's fields: none of
\* it depends on what the waits returned.
MethodEffect(e, h) ==
    CASE h.call = "reset"           -> [Reset(e) EXCEPT !.op = "reset"]
      [] h.call = "init"            -> EpdInit(e)
      [] h.call = "init_partial"    -> EpdInitPartial(e)
      [] h.call = "display"         -> EpdDisplay(e, h.arg)
      [] h.call = "display_partial" ->
            LET c == [e EXCEPT !.partial_count = Min(@ + 1, MaxPartialCount)]
                r == IF h.due THEN RedirectToFull(c, h.arg)
                     ELSE PartialUpdate(c, h.arg)
            IN  [r EXCEPT !.op = "display_partial", !.arg = h.arg]

\* A _wait_busy returns: the next one of the method starts, or, after the
\* last, the method returns.  What the wait returned is dropped by each caller.
WaitReturns(h, cleared) ==
    LET r == [h EXCEPT !.last = IF cleared THEN "True" ELSE "False",
                       !.timed_out = @ \/ ~cleared,
                       !.elapsed = 0, !.waits = @ - 1]
    IN  IF r.waits > 0 THEN r
        ELSE [r EXCEPT !.call = "none", !.done = h.call, !.outcome = "None"]

(***************************************************************************)
(* The Bluetooth PAN session (_start_bt_pan, _stop_bt_pan), as one record  *)
(* of what the process holds and what it has set up in the system:         *)
(*   mainloop_set, bus, agent_obj   EtyperApp._dbus_mainloop_set,          *)
(*                       _bt_bus, _bt_agent (kept across sessions)         *)
(*   powered, discoverable, pairable   properties of the adapter hci0      *)
(*   agent_registered    the agent path is registered with BlueZ           *)
(*   bridge, addr        the bridge pan0 exists / has its address          *)
(*   nap                 the NAP server is registered on the bridge        *)
(*   dnsmasq             the DHCP helper process runs                      *)
(*   loop                the GLib main loop thread runs                    *)
(*   peers               some paired device is connected                   *)
(*   state               _start_bt_pan's result: "dict" or "None"          *)
(*   log                 the steps the last call attempted, in order       *)
(*   raised              the last call ended by raising                    *)
(***************************************************************************)
NewBt ==
    [mainloop_set |-> FALSE, bus |-> FALSE, agent_obj |-> FALSE,
     powered |-> FALSE, discoverable |-> FALSE, pairable |-> FALSE,
     agent_registered |-> FALSE, bridge |-> FALSE, addr |-> FALSE,
     nap |-> FALSE, dnsmasq |-> FALSE, loop |-> FALSE, peers |-> FALSE,
     state |-> "None", log |-> <<>>, raised |-> FALSE, call |-> "none"]

BtFresh(b) == [b EXCEPT !.log = <<>>, !.raised = FALSE, !.call = "none"]

Logged(b, step) == [b EXCEPT !.log = Append(@, step)]

\* _bt_power_off: bluetoothctl power off, every failure swallowed
BtPowerOff(b, ok) ==
    LET l == Logged(b, "power_off")
    IN  IF ok THEN [l EXCEPT !.powered = FALSE, !.peers = FALSE] ELSE l

\* _bt_disconnect_all: disconnects every connected device, every failure swallowed
BtDisconnectAll(b, ok) ==
    LET l == Logged(b, "disconnect_peers")
    IN  IF ok THEN [l EXCEPT !.peers = FALSE] ELSE l

\* The statements of _start_bt_pan's try block that can raise, in order.
StartOrder ==
    <<"mainloop", "bus", "power", "agent_obj", "register_agent", "default_agent",
      "alias", "discoverable", "pairable", "bridge_del", "bridge_add", "addr",
      "nap", "dnsmasq", "loop">>

\* A slip: the mainloop default, the bus and the agent are made anew each time.
StartRunsAlways(b, step) == TRUE

\* Whether the statement runs at all (lines 1085, 1090, 1103).
StartRuns(b, step) ==
    CASE step = "mainloop"  -> ~b.mainloop_set
      [] step = "bus"       -> ~b.bus
      [] step = "agent_obj" -> ~b.agent_obj
      [] OTHER              -> TRUE

\* What the statement does when it does not raise.
StartEffect(b, step) ==
    CASE step = "mainloop"       -> [b EXCEPT !.mainloop_set = TRUE]
      [] step = "bus"            -> [b EXCEPT !.bus = TRUE]
      [] step = "power"          -> [b EXCEPT !.powered = TRUE]
      [] step = "agent_obj"      -> [b EXCEPT !.agent_obj = TRUE]
      \* try: UnregisterAgent, then RegisterAgent
      [] step = "register_agent" -> [b EXCEPT !.agent_registered = TRUE]
      [] step = "default_agent"  -> b
      [] step = "alias"          -> b
      [] step = "discoverable"   -> [b EXCEPT !.discoverable = TRUE]
      [] step = "pairable"       -> [b EXCEPT !.pairable = TRUE]
      [] step = "bridge_del"     -> [b EXCEPT !.bridge = FALSE, !.addr = FALSE]
      [] step = "bridge_add"     -> [b EXCEPT !.bridge = TRUE]
      [] step = "addr"           -> [b EXCEPT !.addr = TRUE]
      \* try: Unregister("nap"), then Register("nap", bridge)
      [] step = "nap"            -> [b EXCEPT !.nap = TRUE]
      [] step = "dnsmasq"        -> [b EXCEPT !.dnsmasq = TRUE]
      [] step = "loop"           -> [b EXCEPT !.loop = TRUE]

\* A failing statement's effect before it raises: RegisterAgent is preceded by
\* an UnregisterAgent of the same path, Register("nap") by an Unregister("nap").
StartPartial(b, step) ==
    CASE step = "register_agent" -> [b EXCEPT !.agent_registered = FALSE]
      [] step = "nap"            -> [b EXCEPT !.nap = FALSE]
      [] OTHER                   -> b

RECURSIVE StartRun(_, _, _)
\* Statements i .. last of the try block, none raising.
StartRun(b, i, last) ==
    IF i > last THEN b
    ELSE LET step == StartOrder[i]
             b1 == IF StartRuns(b, step) THEN StartEffect(Logged(b, step), step) ELSE b
         IN  StartRun(b1, i + 1, last)

\* The except block, lines 1188-1198.
StartRollback(b, dnsmasq_bound, off_ok) ==
    LET d == IF dnsmasq_bound
             THEN [Logged(b, "dnsmasq_terminate") EXCEPT !.dnsmasq = FALSE]
             ELSE b
        r == [Logged(d, "bridge_del") EXCEPT !.bridge = FALSE, !.addr = FALSE]
    IN  [BtPowerOff(r, off_ok) EXCEPT !.state = "None"]

\* The place of a statement in the try block.
StartAt(step) == CHOOSE i \in DOMAIN StartOrder : StartOrder[i] = step

BridgeAddAt == StartAt("bridge_add")

DnsmasqAt == StartAt("dnsmasq")

\* The branch of lines 1133-1136: ip link add returned non-zero.
StartBridgeRefused(b, unregister_raises, off_ok) ==
    LET a == Logged(StartRun(b, 1, BridgeAddAt - 1), "bridge_add")
        u == Logged(a, "unregister_agent")
    IN  IF unregister_raises THEN StartRollback(u, FALSE, off_ok)
        ELSE [u EXCEPT !.agent_registered = FALSE, !.state = "None"]

\* Statement k of the try block raises.
StartRaises(b, k, off_ok) ==
    LET a == StartRun(b, 1, k - 1)
        f == StartPartial(Logged(a, StartOrder[k]), StartOrder[k])
    IN  StartRollback(f, k > DnsmasqAt, off_ok)

StartOutcomes ==
    {[kind |-> "ok", at |-> 0]}
        \cup {[kind |-> "refused", at |-> 0], [kind |-> "refused_raise", at |-> 0]}
        \cup {[kind |-> "raise", at |-> k] : k \in 1..Len(StartOrder)}

\* Whether the outcome can happen from b: a statement that is skipped cannot raise.
StartPossible(b, o) ==
    o.kind = "raise" => StartRuns(StartRun(b, 1, o.at - 1), StartOrder[o.at])

StartBtPan(b, o, off_ok) ==
    LET r == CASE o.kind = "ok"            ->
                    [StartRun(b, 1, Len(StartOrder)) EXCEPT !.state = "dict"]
               [] o.kind = "refused"       -> StartBridgeRefused(b, FALSE, off_ok)
               [] o.kind = "refused_raise" -> StartBridgeRefused(b, TRUE, off_ok)
               [] o.kind = "raise"         -> StartRaises(b, o.at, off_ok)
    IN  [r EXCEPT !.call = "start"]

\* The eight steps of _stop_bt_pan.
StopOrder ==
    <<"dnsmasq_stop", "loop_quit", "nap_unregister", "adapter_hide",
      "agent_unregister", "disconnect_peers", "bridge_del", "power_off">>

\* Steps 1-5 are each inside a try/except Exception; steps 6 and 8 catch inside
\* the helper they call; step 7 is a bare subprocess.run.
StopWrapped(step) == step # "bridge_del"

\* One step; fails says whether it raises.
StopStep(b, step, fails) ==
    CASE step = "dnsmasq_stop"     ->
            \* terminate() and wait(); kill() when either raises
            [Logged(b, step) EXCEPT !.dnsmasq = FALSE]
      [] step = "loop_quit"        ->
            IF fails THEN Logged(b, step) ELSE [Logged(b, step) EXCEPT !.loop = FALSE]
      [] step = "nap_unregister"   ->
            IF fails THEN Logged(b, step) ELSE [Logged(b, step) EXCEPT !.nap = FALSE]
      [] step = "adapter_hide"     ->
            IF fails THEN Logged(b, step)
            ELSE [Logged(b, step) EXCEPT !.discoverable = FALSE, !.pairable = FALSE]
      [] step = "agent_unregister" ->
            IF fails THEN Logged(b, step)
            ELSE [Logged(b, step) EXCEPT !.agent_registered = FALSE]
      [] step = "disconnect_peers" -> BtDisconnectAll(b, ~fails)
      [] step = "bridge_del"       ->
            IF fails THEN Logged(b, step)
            ELSE [Logged(b, step) EXCEPT !.bridge = FALSE, !.addr = FALSE]
      [] step = "power_off"        -> BtPowerOff(b, ~fails)

RECURSIVE StopRun(_, _, _)
\* Steps i .. 8; failing is the set of steps that fail.  A failure of a step
\* that is not wrapped leaves the function.
StopRun(b, i, failing) ==
    IF i > Len(StopOrder) THEN b
    ELSE LET step == StopOrder[i]
             b1 == StopStep(b, step, step \in failing)
         IN  IF step \in failing /\ ~StopWrapped(step)
             THEN [b1 EXCEPT !.raised = TRUE]
             ELSE StopRun(b1, i + 1, failing)

StopBtPan(b, failing) == [StopRun(b, 1, failing) EXCEPT !.call = "stop"]

(***************************************************************************)
(* The application (EtyperApp) and what surrounds it, as one record:       *)
(*   pc                  where the control thread is: "main" (top of the   *)
(*                       main loop), "dispatch" (inside the main loop's    *)
(*                       for-loop over the events read, a handler having   *)
(*                       just returned from a mode), "sleep", "picker",    *)
(*                       "fs" (top of that mode's loop), "done"            *)
(*   text, cursor, doc, dirty, running, ctrl_held, needs_display_update,   *)
(*   active_layout       the fields of the same names (doc: the number of  *)
(*                       the document doc_path names; active_layout: its   *)
(*                       index in LAYOUT_NAMES)                            *)
(*   save_age            time.time() - last_save_time                      *)
(*   keyboard            self.keyboard is not None                         *)
(*   kbd_present         a keyboard is plugged in                          *)
(*   local_ctrl          the local ctrl_held of the mode loop              *)
(*   selected            the local selected of _show_layout_picker         *)
(*   wait_elapsed        time.time() - start in _wait_for_key_or_timeout   *)
(*   pending             the events of the batch read by the main loop     *)
(*                       that are still to be dispatched                   *)
(*   https, http         the two servers: "none", "serving", "shutdown"    *)
(*   ret                 the way a mode function returned in this step     *)
(*   setup               what _file_server_mode attempted in this step to  *)
(*                       bring the session up, in order, its save of the   *)
(*                       document first                                    *)
(*   cleanup             what the finally block of _file_server_mode did   *)
(*                       in this step, in order                            *)
(*   keymap              the layout whose table self.keymap is             *)
(*   layout_pref         what LAYOUT_CONFIG_FILE holds: the index of the   *)
(*                       layout it names, NoPref when there is no file,    *)
(*                       BadPref when it names no layout                   *)
(*   ctrl_down           whether the Ctrl key is down, by the press and    *)
(*                       release events read so far (kept by SpecKeys)     *)
(*   chars_per_line      self.chars_per_line: 30 until the font is loaded, *)
(*                       then what fits the width, at least 1              *)
(*   files               the documents of DOCS_DIR the specification       *)
(*                       follows, by path: whether the file is there and   *)
(*                       its content (followed by SpecEdit, whose paths    *)
(*                       are the seconds of the clock they are named by)   *)
(*   clock               the second datetime.now() is in                   *)
(*   closed              epd.close() was called                            *)
(*   shutdown            what _shutdown has done, in order                 *)
(* HAS_EVDEV and HAS_DBUS are taken to be True.                            *)
(***************************************************************************)
AUTOSAVE_INTERVAL == 10
BT_PAN_TIMEOUT == 300

\* The longest text the model types.
MaxText == 1
\* The most events one keyboard.read() returns.
MaxBatch == 1
\* The model keeps the first NumLayouts entries of LAYOUT_NAMES.
NumLayouts == 2

SaveAgeCap == AUTOSAVE_INTERVAL
WaitCap == BT_PAN_TIMEOUT + AgeSlack

\* There is no preference file.
NoPref == -1
\* The preference file names no layout.
BadPref == NumLayouts

NewApp ==
    [pc |-> "main", text |-> <<>>, cursor |-> 0, doc |-> 0, dirty |-> FALSE,
     save_age |-> 0, running |-> FALSE, keyboard |-> FALSE, kbd_present |-> FALSE,
     ctrl_held |-> FALSE, needs_display_update |-> TRUE, active_layout |-> 0,
     local_ctrl |-> FALSE, selected |-> 0, wait_elapsed |-> 0, pending |-> <<>>,
     https |-> "none", http |-> "none", ret |-> "none", setup |-> <<>>,
     cleanup |-> <<>>, keymap |-> 0, layout_pref |-> 0, ctrl_down |-> FALSE,
     chars_per_line |-> 30, files |-> <<>>, clock |-> 0,
     closed |-> FALSE, shutdown |-> <<>>]

\* The start of a step of the control thread.
Begin(w) ==
    [epd |-> Fresh(w.epd), bt |-> BtFresh(w.bt),
     app |-> [w.app EXCEPT !.ret = "none", !.setup = <<>>, !.cleanup = <<>>,
                           !.https = IF @ = "shutdown" THEN "none" ELSE @,
                           !.http = IF @ = "shutdown" THEN "none" ELSE @]]

\* d seconds pass.
Age(w, d) ==
    [w EXCEPT !.epd = EpdAge(@, d),
              !.app.save_age = Min(@ + d, SaveAgeCap),
              !.app.wait_elapsed = IF w.app.pc = "fs" THEN Min(@ + d, WaitCap) ELSE @]

\* render(): the image is drawn from the text, the cursor, the document name
\* and the dirty flag.
Render(a) == Image("doc", a.text, a.cursor, a.dirty, a.doc, 0)

\* open(path, "w") and f.write(text), where the specification follows the
\* documents.
WriteFile(files, path, text) ==
    IF path \in DOMAIN files
    THEN [files EXCEPT ![path] = [on |-> TRUE, text |-> text]]
    ELSE files

\* save_document; doc_path is set from run() on.
SaveApp(a) ==
    [a EXCEPT !.dirty = FALSE, !.save_age = 0,
              !.files = WriteFile(@, a.doc, a.text)]

SaveDocument(w) == [w EXCEPT !.app = SaveApp(@)]

\* _new_doc_path: the path is named by the second of the clock.
NewDocPath(a) == a.clock

\* new_document, on the application
NewDocApp(a) ==
    [SaveApp(a) EXCEPT !.doc = NewDocPath(a), !.text = <<>>, !.cursor = 0,
                       !.dirty = FALSE, !.needs_display_update = TRUE]

\* new_document
NewDocument(w) == [w EXCEPT !.app = NewDocApp(@)]

\* _list_docs: the paths of the files there are; sorted by name they are
\* sorted by the second that names them.
ListDocs(a) == {p \in DOMAIN a.files : a.files[p].on}

\* docs.index(path) in the sorted list, from 0
DocIndex(docs, path) == Cardinality({q \in docs : q < path})

\* load_document(path), the file being there: the text is read, the cursor
\* goes to its end.
LoadDocument(a, path) ==
    [a EXCEPT !.doc = path, !.text = a.files[path].text,
              !.cursor = Len(a.files[path].text), !.dirty = FALSE]

\* _switch_document(direction), after its save_document
SwitchSaved(a, direction) ==
    LET docs == ListDocs(a)
        idx == IF a.doc \in docs THEN DocIndex(docs, a.doc) ELSE Cardinality(docs) - 1
        new_idx == idx + direction
    IN  IF docs = {} \/ new_idx < 0 \/ new_idx >= Cardinality(docs) THEN a
        ELSE [LoadDocument(a, CHOOSE p \in docs : DocIndex(docs, p) = new_idx)
                 EXCEPT !.needs_display_update = TRUE]

\* _switch_document
SwitchDocument(w, direction) == [w EXCEPT !.app = SwitchSaved(SaveApp(@), direction)]

\* A slip: the screen is brought back without the full draw of the document.
ResumeWithoutDisplay(w) ==
    [w EXCEPT !.epd = EpdInitPartial(EpdInit(@)),
              !.app.needs_display_update = FALSE]

ResumeTypewriterDisplay(w) ==
    [w EXCEPT !.epd = EpdInitPartial(EpdDisplay(EpdInit(@), Render(w.app))),
              !.app.needs_display_update = FALSE]

\* A mode function returns to _handle_key, and that to the main loop; its
\* locals are gone.
Return(w, path) ==
    [w EXCEPT !.app.pc = "dispatch", !.app.ret = path, !.app.local_ctrl = FALSE,
              !.app.selected = 0, !.app.wait_elapsed = 0]

\* A mode function raises OSError (bt.raised): _handle_key and the for-loop of
\* the main loop are left, and the main loop's except clause drops the keyboard.
Raise(w, path) ==
    [w EXCEPT !.app.pc = "main", !.app.ret = path, !.app.local_ctrl = FALSE,
              !.app.selected = 0, !.app.wait_elapsed = 0,
              !.app.pending = <<>>, !.app.keyboard = FALSE]

\* _sleep_mode up to the call of _wait_for_wake
SleepMode(w) ==
    [w EXCEPT !.epd = EpdSleep(EpdClear(EpdInit(@))),
              !.app.pc = "sleep", !.app.local_ctrl = FALSE]

\* A slip: the wake-up draws without waking the panel first.
WakeWithoutInit(w, path) ==
    Return([w EXCEPT !.epd = EpdInitPartial(EpdDisplay(@, Render(w.app))),
                     !.app.needs_display_update = FALSE], path)

\* _sleep_mode after _wait_for_wake
Wake(w, path) ==
    Return([w EXCEPT !.epd = EpdInitPartial(EpdDisplay(EpdInit(@), Render(w.app))),
                     !.app.needs_display_update = FALSE], path)

\* _show_layout_picker up to its input loop
ShowLayoutPicker(w) ==
    LET sel == w.app.active_layout
    IN  [w EXCEPT !.epd = EpdInitPartial(EpdDisplay(EpdInit(@), PickerImage(sel))),
                  !.app.selected = sel,
                  !.app.pc = "picker", !.app.local_ctrl = FALSE]

\* What the surroundings do to one entry into the file server mode.
FsInputs(start_outcomes, stop_failures) ==
    [start : start_outcomes, off_ok : {TRUE}, https_ok : BOOLEAN, http_ok : BOOLEAN,
     failing : stop_failures]

NoFsInput == [start |-> [kind |-> "ok", at |-> 0], off_ok |-> TRUE,
              https_ok |-> TRUE, http_ok |-> TRUE, failing |-> {}]

\* A slip: the finally block forgets the plain HTTP server.
FsCleanupKeepsHttp(w, failing) ==
    [w EXCEPT !.app.https = IF @ = "serving" THEN "shutdown" ELSE @,
              !.bt = [StopBtPan(@, failing) EXCEPT !.state = "None"]]

\* The steps a _stop_bt_pan call attempts, in order.
StopAttempted(failing) == StopRun(NewBt, 1, failing).log

\* A slip: the finally block stops the PAN first and the servers after it.
FsCleanupPanFirst(w, failing) ==
    [w EXCEPT !.app.https = IF @ = "serving" THEN "shutdown" ELSE @,
              !.app.http = IF @ = "serving" THEN "shutdown" ELSE @,
              !.app.cleanup = StopAttempted(failing)
                                \o (IF w.app.https = "serving"
                                    THEN <<"https_shutdown">> ELSE <<>>)
                                \o (IF w.app.http = "serving"
                                    THEN <<"http_shutdown">> ELSE <<>>),
              !.bt = [StopBtPan(@, failing) EXCEPT !.state = "None"]]

\* The servers' part of the finally block: if server: server.shutdown(); if
\* http_server: http_server.shutdown(); and the log of the whole block.
FsCleanupServers(a, failing) ==
    [a EXCEPT !.https = IF @ = "serving" THEN "shutdown" ELSE @,
              !.http = IF @ = "serving" THEN "shutdown" ELSE @,
              !.cleanup = (IF a.https = "serving" THEN <<"https_shutdown">> ELSE <<>>)
                            \o (IF a.http = "serving" THEN <<"http_shutdown">>
                                ELSE <<>>)
                            \o StopAttempted(failing)]

\* The finally block of _file_server_mode: the servers are shut down, then
\* self._stop_bt_pan(bt_state)
FsCleanup(w, failing) ==
    [w EXCEPT !.app = FsCleanupServers(@, failing),
              !.bt = [StopBtPan(@, failing) EXCEPT !.state = "None"]]

\* The save of line 1001 and the steps of the _start_bt_pan call of this step
\* are on record as attempted.
SetupAttempted(w) == [w EXCEPT !.app.setup = <<"save">> \o w.bt.log]

\* A slip: the servers are started first, and the PAN after them.
FileServerModeServersFirst(w, in) ==
    LET s == SaveDocument(w)
        d == [s EXCEPT !.epd = EpdDisplay(EpdInit(@), FsImage),
                       !.app.https = "serving", !.app.http = "serving"]
        b == [d EXCEPT !.bt = StartBtPan(@, in.start, in.off_ok)]
    IN  IF b.bt.state = "None"
        THEN Return(ResumeTypewriterDisplay(
                        [b EXCEPT !.app.setup = <<"https_start", "http_start">>
                                                  \o b.bt.log]), "fs_pan_failed")
        ELSE [b EXCEPT !.app.setup = <<"https_start", "http_start">> \o b.bt.log,
                       !.app.pc = "fs", !.app.local_ctrl = FALSE,
                       !.app.wait_elapsed = 0]

\* _file_server_mode up to the call of _wait_for_key_or_timeout
FileServerMode(w, in) ==
    LET s == SaveDocument(w)
        d == [s EXCEPT !.epd = EpdDisplay(EpdInit(@), FsImage),
                       !.app.https = "none", !.app.http = "none"]
        b == [d EXCEPT !.bt = StartBtPan(@, in.start, in.off_ok)]
    IN  IF b.bt.state = "None"
        THEN Return(ResumeTypewriterDisplay(SetupAttempted(b)), "fs_pan_failed")
        ELSE IF ~in.https_ok
        THEN LET c == FsCleanup(SetupAttempted(b), in.failing)
             IN  IF c.bt.raised THEN Raise(c, "fs_https_failed")
                 ELSE Return(c, "fs_https_failed")
        ELSE [b EXCEPT !.app.https = "serving",
                       !.app.http = IF in.http_ok THEN "serving" ELSE "none",
                       !.app.setup = <<"save">> \o b.bt.log \o <<"https_start">>
                                       \o (IF in.http_ok THEN <<"http_start">>
                                           ELSE <<>>),
                       !.app.pc = "fs", !.app.local_ctrl = FALSE,
                       !.app.wait_elapsed = 0]

\* A slip: the document is written again before the servers are shut down.
FsExitSavesFirst(w, path, failing) ==
    LET c == FsCleanup(SaveDocument(w), failing)
    IN  IF c.bt.raised THEN Raise(c, path)
        ELSE Return(ResumeTypewriterDisplay(c), path)

\* _file_server_mode after _wait_for_key_or_timeout
FsExit(w, path, failing) ==
    LET c == FsCleanup(w, failing)
    IN  IF c.bt.raised THEN Raise(c, path)
        ELSE Return(ResumeTypewriterDisplay(c), path)

(***************************************************************************)
(* Key events: code and value (0 release, 1 press, 2 repeat).              *)
(***************************************************************************)
Ev(code, value) == [code |-> code, value |-> value]

LetterKeys == {"Q", "F", "K"}
\* The keys of the keymap the model types.
CharKeys == LetterKeys \cup {"A", "SPACE", "TAB"}
Codes == LetterKeys \cup {"CTRL", "ENTER", "ESC", "UP", "BACKSPACE"}
Events == {Ev(c, 1) : c \in Codes} \cup {Ev("CTRL", 0), Ev("Q", 2)}

\* keymap[keycode], unshifted; the layouts kept agree on these keys.
KeyChar(code) ==
    CASE code = "Q" -> "q" [] code = "F" -> "f" [] code = "K" -> "k"

\* keymap[keycode], unshifted, as the characters it holds: KEY_TAB holds four
\* spaces.
KeyText(code) ==
    CASE code = "TAB" -> <<" ", " ", " ", " ">>
      [] code = "SPACE" -> <<" ">>
      [] code = "A" -> <<"a">>
      [] OTHER -> <<KeyChar(code)>>

\* Lines 926-932: the characters of the key go in at the cursor.
InsertChars(w, chars) ==
    [w EXCEPT !.app = [@ EXCEPT !.text = SubSeq(@, 1, w.app.cursor) \o chars
                                            \o SubSeq(@, w.app.cursor + 1, Len(@)),
                                !.cursor = @ + Len(chars),
                                !.dirty = TRUE,
                                !.needs_display_update = TRUE]]

Insert(w, ch) ==
    LET a == w.app
    IN  [w EXCEPT !.app.text = SubSeq(a.text, 1, a.cursor) \o <<ch>>
                                  \o SubSeq(a.text, a.cursor + 1, Len(a.text)),
                  !.app.cursor = a.cursor + 1,
                  !.app.dirty = TRUE,
                  !.app.needs_display_update = TRUE]

(***************************************************************************)
(* textwrap.wrap(para, width, break_long_words=True,                       *)
(* break_on_hyphens=False) on a paragraph of letters and spaces: the       *)
(* chunks are the runs of spaces and the words between them; a line takes  *)
(* chunks while they fit, a chunk longer than the width is cut at the room *)
(* left, a run of spaces is dropped at the end of a line and at the start  *)
(* of every line but the first, and a line left empty is not kept.         *)
(* The({e : x \in {d}}) is e with x naming the value of d.                 *)
(***************************************************************************)
The(S) == CHOOSE x \in S : TRUE

IsBlank(chunk) == \A i \in DOMAIN chunk : chunk[i] = " "

\* The places where a run of spaces or a word begins.
ChunkStarts(para) ==
    {i \in DOMAIN para : i = 1 \/ (para[i] = " ") # (para[i - 1] = " ")}

\* The end of the chunk that begins at i.
ChunkEnd(para, i) ==
    CHOOSE k \in i..Len(para) :
       /\ \A j \in i..k : (para[j] = " ") = (para[i] = " ")
       /\ k = Len(para) \/ (para[k + 1] = " ") # (para[i] = " ")

\* The n-th smallest element of a set of numbers.
Nth(S, n) == The({s \in S : Cardinality({t \in S : t < s}) = n - 1})

\* _split_chunks: the chunks in order
SplitChunks(para) ==
    [n \in 1..Cardinality(ChunkStarts(para)) |->
        The({SubSeq(para, i, ChunkEnd(para, i)) : i \in {Nth(ChunkStarts(para), n)}})]

RECURSIVE Join(_)
\* ''.join(cur_line)
Join(chunks) == IF chunks = <<>> THEN <<>> ELSE Head(chunks) \o Join(Tail(chunks))

RECURSIVE FillLine(_, _, _)
\* The inner loop of _wrap_chunks: chunks are taken while they fit.
FillLine(chunks, cur_line, width) ==
    IF chunks # <<>> /\ Len(Join(cur_line)) + Len(Head(chunks)) <= width
    THEN FillLine(Tail(chunks), Append(cur_line, Head(chunks)), width)
    ELSE [cur_line |-> cur_line, chunks |-> chunks]

\* _handle_long_word with break_long_words, called when the next chunk is
\* longer than the width: the line takes as much of the chunk as there is
\* room left, nothing when the line is full.
HandleLongWord(f, width) ==
    IF f.chunks # <<>> /\ Len(Head(f.chunks)) > width
    THEN [cur_line |-> Append(f.cur_line,
                              SubSeq(Head(f.chunks), 1, width - Len(Join(f.cur_line)))),
          chunks |-> <<SubSeq(Head(f.chunks), width - Len(Join(f.cur_line)) + 1,
                              Len(Head(f.chunks)))>>
                        \o Tail(f.chunks)]
    ELSE f

\* The end of a line: a blank last chunk is dropped.
DropBlank(f) ==
    IF f.cur_line # <<>> /\ IsBlank(f.cur_line[Len(f.cur_line)])
    THEN [f EXCEPT !.cur_line = SubSeq(@, 1, Len(@) - 1)]
    ELSE f

\* One line of _wrap_chunks, from the chunks left.
WrapLine(chunks, width, first) ==
    The({The({DropBlank(g) : g \in {HandleLongWord(f, width)}})
         : f \in {FillLine(IF IsBlank(Head(chunks)) /\ ~first THEN Tail(chunks)
                           ELSE chunks, <<>>, width)}})

RECURSIVE WrapChunks(_, _, _)
\* The outer loop of _wrap_chunks
WrapChunks(chunks, width, lines) ==
    IF chunks = <<>> THEN lines
    ELSE The({WrapChunks(f.chunks, width,
                         IF f.cur_line # <<>> THEN Append(lines, Join(f.cur_line))
                         ELSE lines)
              : f \in {WrapLine(chunks, width, lines = <<>>)}})

\* textwrap.wrap, and the callers' "if not wrapped: wrapped = ['']"
Wrapped(para, width) ==
    The({IF lines = <<>> THEN << <<>> >> ELSE lines
         : lines \in {The({WrapChunks(chunks, width, <<>>)
                           : chunks \in {SplitChunks(para)}})}})

\* The places of the newlines, with the place after the end of the text.
LineEnds(text) == {i \in DOMAIN text : text[i] = "NL"} \cup {Len(text) + 1}

\* text.split("\n")
SplitLines(text) ==
    [n \in 1..Cardinality(LineEnds(text)) |->
        SubSeq(text, IF n = 1 THEN 1 ELSE Nth(LineEnds(text), n - 1) + 1,
               Nth(LineEnds(text), n) - 1)]

\* para[para_char] == " ", para_char within the paragraph (0-based)
SpaceAt(para, para_char) == para_char < Len(para) /\ para[para_char + 1] = " "

\* _wrap_with_cursor, one wrapped line of a paragraph: st holds lines,
\* char_to_pos and para_char.  Lines and columns count from 0.
MapLine(w_line, para, para_start, st) ==
    LET line_idx == Len(st.lines)
        from == para_start + st.para_char
        chars == [k \in from..(from + Len(w_line) - 1) |-> <<line_idx, k - from>>]
        after == st.para_char + Len(w_line)
    IN  IF SpaceAt(para, after)
        THEN [lines |-> Append(st.lines, w_line),
              char_to_pos |-> ((para_start + after) :> <<line_idx, Len(w_line)>>)
                                 @@ chars @@ st.char_to_pos,
              para_char |-> after + 1]
        ELSE [lines |-> Append(st.lines, w_line),
              char_to_pos |-> chars @@ st.char_to_pos,
              para_char |-> after]

RECURSIVE MapLines(_, _, _, _)
\* _wrap_with_cursor, the loop over the wrapped lines of a paragraph
MapLines(wrapped, para, para_start, st) ==
    IF wrapped = <<>> THEN st
    ELSE The({MapLines(Tail(wrapped), para, para_start, s)
              : s \in {MapLine(Head(wrapped), para, para_start, st)}})

\* _wrap_with_cursor, a paragraph that is not empty, after its lines: the
\* newline that ends it is at the end of its last line.
MapNewline(m, para, last, para_start) ==
    [lines |-> m.lines,
     char_to_pos |-> IF last THEN m.char_to_pos
                     ELSE ((para_start + Len(para))
                              :> <<Len(m.lines) - 1, Len(m.lines[Len(m.lines)])>>)
                             @@ m.char_to_pos,
     para_start |-> para_start + Len(para) + 1]

\* _wrap_with_cursor, one paragraph: st holds lines, char_to_pos and
\* para_start.
MapParagraph(para, last, cpl, st) ==
    IF para = <<>>
    THEN [lines |-> Append(st.lines, <<>>),
          char_to_pos |-> IF last THEN st.char_to_pos
                          ELSE (st.para_start :> <<Len(st.lines), 0>>) @@ st.char_to_pos,
          para_start |-> st.para_start + 1]
    ELSE The({The({MapNewline(m, para, last, st.para_start)
                   : m \in {MapLines(wrapped, para, st.para_start,
                                     [lines |-> st.lines,
                                      char_to_pos |-> st.char_to_pos,
                                      para_char |-> 0])}})
              : wrapped \in {Wrapped(para, cpl)}})

RECURSIVE MapParagraphs(_, _, _, _)
\* _wrap_with_cursor, the loop over the paragraphs
MapParagraphs(paragraphs, p_idx, cpl, st) ==
    IF p_idx > Len(paragraphs) THEN st
    ELSE The({MapParagraphs(paragraphs, p_idx + 1, cpl, s)
              : s \in {MapParagraph(paragraphs[p_idx], p_idx = Len(paragraphs),
                                    cpl, st)}})

\* _wrap_with_cursor, lines 676-696: the line and column of the cursor
CursorPos(a, st) ==
    LET lines == IF st.lines = <<>> THEN << <<>> >> ELSE st.lines
        end == <<Len(lines) - 1, Len(lines[Len(lines)])>>
        at == IF a.cursor >= Len(a.text) THEN end
              ELSE IF a.cursor \in DOMAIN st.char_to_pos THEN st.char_to_pos[a.cursor]
              ELSE end
    IN  [lines |-> lines, cursor_line |-> at[1], cursor_col |-> at[2]]

\* _wrap_with_cursor
WrapWithCursor(a) ==
    The({The({CursorPos(a, st)
              : st \in {MapParagraphs(paragraphs, 1, a.chars_per_line,
                                      [lines |-> <<>>, char_to_pos |-> <<>>,
                                       para_start |-> 0])}})
         : paragraphs \in {SplitLines(a.text)}})

RECURSIVE PosInWrappedCountsSpace(_, _, _, _, _, _)
\* A slip: a space is counted after every wrapped line, also where a long word
\* was cut.
PosInWrappedCountsSpace(wrapped, para, para_char, line_idx, target_line, target_col) ==
    IF wrapped = <<>> THEN [found |-> FALSE, at |-> 0, line_idx |-> line_idx]
    ELSE IF line_idx = target_line
    THEN [found |-> TRUE, at |-> para_char + Min(target_col, Len(Head(wrapped))),
          line_idx |-> line_idx]
    ELSE PosInWrappedCountsSpace(Tail(wrapped), para,
                                 para_char + Len(Head(wrapped)) + 1,
                                 line_idx + 1, target_line, target_col)

RECURSIVE PosInWrapped(_, _, _, _, _, _)
\* _pos_from_line_col, the loop over the wrapped lines of a paragraph
PosInWrapped(wrapped, para, para_char, line_idx, target_line, target_col) ==
    IF wrapped = <<>> THEN [found |-> FALSE, at |-> 0, line_idx |-> line_idx]
    ELSE IF line_idx = target_line
    THEN [found |-> TRUE, at |-> para_char + Min(target_col, Len(Head(wrapped))),
          line_idx |-> line_idx]
    ELSE The({PosInWrapped(Tail(wrapped), para,
                           IF SpaceAt(para, after) THEN after + 1 ELSE after,
                           line_idx + 1, target_line, target_col)
              : after \in {para_char + Len(Head(wrapped))}})

RECURSIVE PosInParagraphs(_, _, _, _, _, _)
\* _pos_from_line_col, the loop over the paragraphs: at holds line_idx and
\* text_pos.
PosInParagraphs(a, paragraphs, p_idx, at, target_line, target_col) ==
    IF p_idx > Len(paragraphs) THEN Len(a.text)
    ELSE IF paragraphs[p_idx] = <<>>
    THEN IF at.line_idx = target_line THEN at.text_pos + Min(target_col, 0)
         ELSE The({PosInParagraphs(a, paragraphs, p_idx + 1, next,
                                   target_line, target_col)
                   : next \in {[line_idx |-> at.line_idx + 1,
                                text_pos |-> at.text_pos + 1]}})
    ELSE The({IF r.found THEN at.text_pos + r.at
              ELSE The({PosInParagraphs(a, paragraphs, p_idx + 1, next,
                                        target_line, target_col)
                        : next \in {[line_idx |-> r.line_idx,
                                     text_pos |-> at.text_pos
                                                    + Len(paragraphs[p_idx]) + 1]}})
              : r \in {The({PosInWrapped(wrapped, paragraphs[p_idx], 0, at.line_idx,
                                         target_line, target_col)
                            : wrapped \in {Wrapped(paragraphs[p_idx],
                                                   a.chars_per_line)}})}})

\* _pos_from_line_col(lines, target_line, target_col); the code wraps the text
\* again and does not read the lines it is given.
PosFromLineCol(a, target_line, target_col) ==
    The({PosInParagraphs(a, paragraphs, 1, [line_idx |-> 0, text_pos |-> 0],
                         target_line, target_col)
         : paragraphs \in {SplitLines(a.text)}})

\* _cursor_up: the new cursor
CursorUp(a) ==
    The({IF w.cursor_line = 0 THEN a.cursor
         ELSE PosFromLineCol(a, w.cursor_line - 1,
                             Min(w.cursor_col, Len(w.lines[w.cursor_line])))
         : w \in {WrapWithCursor(a)}})

\* _cursor_down: the new cursor
CursorDown(a) ==
    The({IF w.cursor_line >= Len(w.lines) - 1 THEN a.cursor
         ELSE PosFromLineCol(a, w.cursor_line + 1,
                             Min(w.cursor_col, Len(w.lines[w.cursor_line + 2])))
         : w \in {WrapWithCursor(a)}})

\* Lines 886-890: Home, the start of the visual line
CursorHome(a) == PosFromLineCol(a, WrapWithCursor(a).cursor_line, 0)

\* Lines 893-897: End, the end of the visual line
CursorEnd(a) ==
    The({PosFromLineCol(a, w.cursor_line, Len(w.lines[w.cursor_line + 1]))
         : w \in {WrapWithCursor(a)}})

\* The cursor is set and a render asked for.
CursorMoved(a, cursor) == [a EXCEPT !.cursor = cursor, !.needs_display_update = TRUE]

\* _handle_key
HandleKey(w, ev, in) ==
    LET a == w.app
    IN  IF ev.code = "CTRL" THEN [w EXCEPT !.app.ctrl_held = (ev.value # 0)]
        ELSE IF ev.value = 0 THEN w
        ELSE IF a.ctrl_held /\ ev.code = "Q" THEN SleepMode(SaveDocument(w))
        ELSE IF a.ctrl_held /\ ev.code = "S"
        THEN [SaveDocument(w) EXCEPT !.app.needs_display_update = TRUE]
        ELSE IF a.ctrl_held /\ ev.code = "N" THEN NewDocument(w)
        ELSE IF a.ctrl_held /\ ev.code = "R"
        THEN [w EXCEPT !.epd = EpdFullRefresh(@, Render(a)),
                       !.app.needs_display_update = FALSE]
        ELSE IF a.ctrl_held /\ ev.code = "LEFT" THEN SwitchDocument(w, -1)
        ELSE IF a.ctrl_held /\ ev.code = "RIGHT" THEN SwitchDocument(w, 1)
        ELSE IF a.ctrl_held /\ ev.code = "F" THEN FileServerMode(w, in)
        ELSE IF a.ctrl_held /\ ev.code = "K" THEN ShowLayoutPicker(w)
        ELSE IF ev.code = "LEFT"
        THEN IF a.cursor > 0
             THEN [w EXCEPT !.app.cursor = a.cursor - 1, !.app.needs_display_update = TRUE]
             ELSE w
        ELSE IF ev.code = "RIGHT"
        THEN IF a.cursor < Len(a.text)
             THEN [w EXCEPT !.app.cursor = a.cursor + 1, !.app.needs_display_update = TRUE]
             ELSE w
        ELSE IF ev.code = "HOME"
        THEN [w EXCEPT !.app = CursorMoved(@, CursorHome(@))]
        ELSE IF ev.code = "END"
        THEN [w EXCEPT !.app = CursorMoved(@, CursorEnd(@))]
        ELSE IF ev.code = "UP"
        THEN [w EXCEPT !.app = CursorMoved(@, CursorUp(@))]
        ELSE IF ev.code = "DOWN"
        THEN [w EXCEPT !.app = CursorMoved(@, CursorDown(@))]
        ELSE IF ev.code = "ENTER" THEN Insert(w, "NL")
        ELSE IF ev.code = "BACKSPACE"
        THEN IF a.cursor > 0
             THEN [w EXCEPT !.app.text = SubSeq(a.text, 1, a.cursor - 1)
                                            \o SubSeq(a.text, a.cursor + 1, Len(a.text)),
                            !.app.cursor = a.cursor - 1,
                            !.app.dirty = TRUE,
                            !.app.needs_display_update = TRUE]
             ELSE w
        ELSE IF ev.code = "DELETE"
        THEN IF a.cursor < Len(a.text)
             THEN [w EXCEPT !.app.text = SubSeq(a.text, 1, a.cursor)
                                            \o SubSeq(a.text, a.cursor + 2, Len(a.text)),
                            !.app.dirty = TRUE,
                            !.app.needs_display_update = TRUE]
             ELSE w
        ELSE IF ev.code \in CharKeys THEN InsertChars(w, KeyText(ev.code))
        ELSE w

\* A slip: the interval must be exceeded, not reached.
CheckAutosaveStrict(w) ==
    IF w.app.dirty /\ w.app.save_age > AUTOSAVE_INTERVAL THEN SaveDocument(w) ELSE w

\* _check_autosave
CheckAutosave(w) ==
    IF w.app.dirty /\ w.app.save_age >= AUTOSAVE_INTERVAL THEN SaveDocument(w) ELSE w

\* The main loop after its for-loop, lines 1555-1560
\* A slip: the loop draws at the end of every iteration.
FinishIterationAlwaysDraws(w) ==
    CheckAutosave([w EXCEPT !.epd = EpdDisplayPartial(@, Render(w.app)),
                            !.app.needs_display_update = FALSE])

\* _main_loop, lines 1554-1560: the end of an iteration
FinishIteration(w) ==
    LET r == IF w.app.needs_display_update
             THEN [w EXCEPT !.epd = EpdDisplayPartial(@, Render(w.app)),
                            !.app.needs_display_update = FALSE]
             ELSE w
    IN  CheckAutosave(r)

RECURSIVE Dispatch(_, _, _)
\* The main loop's for-loop over the events read.  A handler that enters a mode
\* stays there (pc is that mode's loop) or has returned from it (ret is set);
\* the events after it are dispatched when the mode has returned, and dropped
\* when it has raised.
Dispatch(w, batch, in) ==
    IF batch = <<>> THEN FinishIteration([w EXCEPT !.app.pc = "main"])
    ELSE LET h == HandleKey(w, Head(batch), in)
         IN  IF h.bt.raised THEN h
             ELSE IF h.app.pc # "main" \/ h.app.ret # "none"
             THEN [h EXCEPT !.app.pending = Tail(batch)]
             ELSE Dispatch(h, Tail(batch), in)

\* A slip: the panel is put to sleep before the screen is cleared.
ShutdownSleepsFirst(w) ==
    LET s == IF w.app.dirty
             THEN [SaveDocument(w) EXCEPT !.app.shutdown = Append(@, "save")]
             ELSE w
    IN  [s EXCEPT !.epd = EpdClear(EpdSleep(EpdInit(@))),
                  !.app.shutdown = @ \o <<"init", "sleep", "clear", "close">>,
                  !.app.closed = TRUE, !.app.pc = "done"]

\* _shutdown
Shutdown(w) ==
    LET s == IF w.app.dirty
             THEN [SaveDocument(w) EXCEPT !.app.shutdown = Append(@, "save")]
             ELSE w
    IN  [s EXCEPT !.epd = EpdSleep(EpdClear(EpdInit(@))),
                  !.app.shutdown = @ \o <<"init", "clear", "sleep", "close">>,
                  !.app.closed = TRUE, !.app.pc = "done"]

VARIABLES epd, bt, app, hw

vars == <<epd, bt, app, hw>>

(***************************************************************************)
(* SpecDriver: a client calls the public methods of one EPD42 object in    *)
(* any order, with any buffer, at any time.                                *)
(***************************************************************************)
DriverBuffers == {WhiteImage, PickerImage(0), PickerImage(1)}
DriverTicks == {100, 150}

DrvInit == epd' = EpdInit(Fresh(epd)) /\ UNCHANGED <<bt, app, hw>>

DrvInitPartial == epd' = EpdInitPartial(Fresh(epd)) /\ UNCHANGED <<bt, app, hw>>

DrvDisplay ==
    /\ \E b \in DriverBuffers : epd' = EpdDisplay(Fresh(epd), b)
    /\ UNCHANGED <<bt, app, hw>>

DrvDisplayPartial ==
    /\ \E b \in DriverBuffers : epd' = EpdDisplayPartial(Fresh(epd), b)
    /\ UNCHANGED <<bt, app, hw>>

DrvFullRefresh ==
    /\ \E b \in DriverBuffers : epd' = EpdFullRefresh(Fresh(epd), b)
    /\ UNCHANGED <<bt, app, hw>>

DrvClear == epd' = EpdClear(Fresh(epd)) /\ UNCHANGED <<bt, app, hw>>

DrvSleep == epd' = EpdSleep(Fresh(epd)) /\ UNCHANGED <<bt, app, hw>>

DrvTick ==
    /\ \E d \in DriverTicks : epd' = EpdAge(Fresh(epd), d)
    /\ UNCHANGED <<bt, app, hw>>

InitDriver == epd = NewEPD /\ bt = NewBt /\ app = NewApp /\ hw = NewHw

NextDriver ==
    \/ DrvInit
    \/ DrvInitPartial
    \/ DrvDisplay
    \/ DrvDisplayPartial
    \/ DrvFullRefresh
    \/ DrvClear
    \/ DrvSleep
    \/ DrvTick

SpecDriver == InitDriver /\ [][NextDriver]_vars

(***************************************************************************)
(* SpecBusy: a client calls the methods that wait on the busy line, one    *)
(* after another; the panel raises and drops the line as it likes, or      *)
(* never drops it.  A step of the driver is one poll of _wait_busy's loop  *)
(* (a run of polls, d seconds long) or one return of _wait_busy.           *)
(***************************************************************************)
BusyMethods == {"reset", "init", "init_partial", "display", "display_partial"}
BusyBuffers == {WhiteImage}
WaitTicks == {15}

BusyCall ==
    /\ hw.call = "none"
    /\ \E m \in BusyMethods, b \in BusyBuffers :
          LET due == m = "display_partial" /\ RefreshDue(epd)
          IN  hw' = [HwFresh(hw) EXCEPT
                        !.call = m,
                        !.arg = IF m \in {"display", "display_partial"} THEN b ELSE NoImage,
                        !.due = due, !.waits = WaitCalls(m, due), !.elapsed = 0]
    /\ epd' = Fresh(epd)
    /\ UNCHANGED <<bt, app>>

\* busy is 1 and the timeout has not passed: sleep and look again
BusyPoll ==
    /\ hw.call # "none" /\ hw.busy /\ ~WaitTimedOut(hw)
    /\ \E d \in WaitTicks :
          /\ hw' = WaitSleep(HwFresh(hw), d)
          /\ epd' = EpdAge(epd, d)
    /\ UNCHANGED <<bt, app>>

\* busy is 1 and the timeout has passed: return False
BusyGivesUp ==
    /\ hw.call # "none" /\ hw.busy /\ WaitTimedOut(hw)
    /\ hw' = WaitReturns(HwFresh(hw), FALSE)
    /\ epd' = IF hw'.call = "none" THEN MethodEffect(Fresh(epd), hw) ELSE epd
    /\ UNCHANGED <<bt, app>>

\* busy is 0: return True
BusyCleared ==
    /\ hw.call # "none" /\ ~hw.busy
    /\ hw' = WaitReturns(HwFresh(hw), TRUE)
    /\ epd' = IF hw'.call = "none" THEN MethodEffect(Fresh(epd), hw) ELSE epd
    /\ UNCHANGED <<bt, app>>

\* The panel starts working.
BusyRises ==
    /\ ~hw.busy
    /\ hw' = [HwFresh(hw) EXCEPT !.busy = TRUE]
    /\ UNCHANGED <<epd, bt, app>>

\* The panel has finished.
BusyFalls ==
    /\ hw.busy
    /\ hw' = [HwFresh(hw) EXCEPT !.busy = FALSE]
    /\ UNCHANGED <<epd, bt, app>>

\* Time passes between two calls.
BusyIdle ==
    /\ hw.call = "none"
    /\ \E d \in DriverTicks : epd' = EpdAge(Fresh(epd), d)
    /\ hw' = HwFresh(hw)
    /\ UNCHANGED <<bt, app>>

InitBusy == epd = NewEPD /\ bt = NewBt /\ app = NewApp /\ hw = NewHw

NextBusy ==
    \/ BusyCall
    \/ BusyPoll
    \/ BusyGivesUp
    \/ BusyCleared
    \/ BusyRises
    \/ BusyFalls
    \/ BusyIdle

SpecBusy == InitBusy /\ [][NextBusy]_vars

\* The steps of the thread that called the method.
BusyThread == BusyPoll \/ BusyGivesUp \/ BusyCleared

\* The calling thread is scheduled, and its sleeps end.
SpecBusyLive == SpecBusy /\ WF_vars(BusyThread)

(***************************************************************************)
(* SpecSession: sessions are started and torn down one after another, each *)
(* step free to fail.  Between sessions a peer may connect.                *)
(***************************************************************************)
SessStart ==
    /\ bt.state = "None"
    /\ \E o \in StartOutcomes, off_ok \in BOOLEAN :
          /\ StartPossible(BtFresh(bt), o)
          /\ bt' = StartBtPan(BtFresh(bt), o, off_ok)
    /\ UNCHANGED <<epd, app, hw>>

SessStop ==
    /\ bt.state = "dict"
    /\ \E failing \in SUBSET {StopOrder[i] : i \in 1..Len(StopOrder)} :
          bt' = [StopBtPan(BtFresh(bt), failing) EXCEPT !.state = "None"]
    /\ UNCHANGED <<epd, app, hw>>

\* _stop_bt_pan is called once more with the state dict of the call before.
SessStopAgain ==
    /\ bt.call = "stop"
    /\ \E failing \in SUBSET {StopOrder[i] : i \in 1..Len(StopOrder)} :
          bt' = [StopBtPan(BtFresh(bt), failing) EXCEPT !.call = "stop_again"]
    /\ UNCHANGED <<epd, app, hw>>

SessPeerConnects ==
    /\ bt.state = "dict" /\ bt.powered /\ bt.nap /\ ~bt.peers
    /\ bt' = [BtFresh(bt) EXCEPT !.peers = TRUE]
    /\ UNCHANGED <<epd, app, hw>>

InitSession == epd = NewEPD /\ bt = NewBt /\ app = NewApp /\ hw = NewHw

NextSession ==
    \/ SessStart
    \/ SessStop
    \/ SessStopAgain
    \/ SessPeerConnects

SpecSession == InitSession /\ [][NextSession]_vars

(***************************************************************************)
(* SpecBoot: the process from its start.  run() calls _cleanup_stale_bt    *)
(* before anything else (app.pc = "boot" until it has), and sessions are   *)
(* started and torn down from the main loop after that.  The process may   *)
(* die at any point and be started again: what it had set up in the system *)
(* stays behind.  The commands of the pass (pgrep, kill, ip link del) are  *)
(* taken to do what they are asked.                                        *)
(***************************************************************************)
\* A slip: the pass removes the bridge and leaves the DHCP helper alone.
CleanupStaleBtKeepsHelper(b, off_ok) ==
    LET r == [Logged(b, "bridge_del") EXCEPT !.bridge = FALSE, !.addr = FALSE]
    IN  [BtPowerOff(r, off_ok) EXCEPT !.call = "cleanup"]

\* _cleanup_stale_bt: kill every dnsmasq bound to the bridge name, delete the
\* bridge, power the adapter off.
CleanupStaleBt(b, off_ok) ==
    LET k == IF b.dnsmasq THEN [Logged(b, "dnsmasq_kill") EXCEPT !.dnsmasq = FALSE]
             ELSE b
        r == [Logged(k, "bridge_del") EXCEPT !.bridge = FALSE, !.addr = FALSE]
    IN  [BtPowerOff(r, off_ok) EXCEPT !.call = "cleanup"]

\* run(), lines 1498-1500
BootCleanup ==
    /\ app.pc = "boot"
    /\ \E off_ok \in BOOLEAN : bt' = CleanupStaleBt(BtFresh(bt), off_ok)
    /\ app' = [app EXCEPT !.pc = "main"]
    /\ UNCHANGED <<epd, hw>>

BootSessStart == app.pc = "main" /\ SessStart

BootSessStop == app.pc = "main" /\ SessStop

BootPeerConnects == app.pc = "main" /\ SessPeerConnects

\* The process dies and is started again.  Its objects and its threads are
\* gone, and BlueZ drops what a client that left the bus had registered; the
\* bridge, the helper process and the adapter's settings stay as they were.
BootCrash ==
    /\ bt' = [BtFresh(bt) EXCEPT !.mainloop_set = FALSE, !.bus = FALSE,
                                 !.agent_obj = FALSE, !.loop = FALSE,
                                 !.agent_registered = FALSE, !.nap = FALSE,
                                 !.state = "None"]
    /\ app' = [app EXCEPT !.pc = "boot"]
    /\ UNCHANGED <<epd, hw>>

\* What an earlier run of the program may have left behind.
InitBoot ==
    /\ epd = NewEPD /\ hw = NewHw
    /\ app = [NewApp EXCEPT !.pc = "boot"]
    /\ \E bridge \in BOOLEAN, helper \in BOOLEAN :
          bt = [NewBt EXCEPT !.bridge = bridge, !.addr = bridge, !.dnsmasq = helper]

NextBoot ==
    \/ BootCleanup
    \/ BootSessStart
    \/ BootSessStop
    \/ BootPeerConnects
    \/ BootCrash

SpecBoot == InitBoot /\ [][NextBoot]_vars

(***************************************************************************)
(* The application: run() from the start of _main_loop to the end of       *)
(* _shutdown.  A step is what the control thread does between two waits    *)
(* (select, sleep); time passes only in the steps that wait, in runs of    *)
(* idle loop iterations.  The surroundings plug and unplug the keyboard,   *)
(* deliver SIGINT/SIGTERM, and decide how an entry into the file server    *)
(* mode and its teardown go.  Writing the document succeeds.               *)
(***************************************************************************)
\* The lengths, in seconds, of the runs of idle iterations.
IdleSeconds == {150}

\* The ways _start_bt_pan goes in an entry of the application.
AppStartOutcomes ==
    {[kind |-> "ok", at |-> 0], [kind |-> "refused", at |-> 0],
     [kind |-> "raise", at |-> StartAt("nap")]}

\* The steps of _stop_bt_pan that fail in a teardown of the application.
AppStopFailures == {{}, {"bridge_del"}}

BatchesOfLength(n) == [1..n -> Events]
Batches == UNION {BatchesOfLength(n) : n \in 1..MaxBatch}

HasKey(batch, code) == \E i \in DOMAIN batch : batch[i].code = code

RECURSIVE Typed(_, _)
\* The events of the batch that add a character to the text, ctrl_held being
\* ctrl when the batch begins: a letter pressed with Ctrl held is a shortcut.
Typed(ctrl, batch) ==
    IF batch = <<>> THEN 0
    ELSE LET ev == Head(batch)
         IN  IF ev.code = "CTRL" THEN Typed(ev.value # 0, Tail(batch))
             ELSE IF ev.value # 0 /\ (ev.code = "ENTER" \/ (ev.code \in LetterKeys /\ ~ctrl))
             THEN 1 + Typed(ctrl, Tail(batch))
             ELSE Typed(ctrl, Tail(batch))

FsChoices(batch) ==
    IF HasKey(batch, "F") THEN FsInputs(AppStartOutcomes, AppStopFailures)
    ELSE {NoFsInput}

World == [epd |-> epd, bt |-> bt, app |-> app]

Commit(w) == epd' = w.epd /\ bt' = w.bt /\ app' = w.app /\ UNCHANGED hw

\* A slip: the loop does not look for a keyboard again.
FoundNever(w) == w

\* What the top of a loop iteration makes of self.keyboard when select does
\* not raise: _find_keyboard finds the keyboard that is plugged in.
Found(w) == [w EXCEPT !.app.keyboard = w.app.kbd_present]

\* A slip: the idle iterations leave out _check_autosave.
IdleRunNoCheck(w, d) ==
    LET a == w.app
        lost == a.keyboard /\ ~a.kbd_present
    IN  Age([w EXCEPT !.app.keyboard = IF lost THEN FALSE ELSE a.kbd_present], d)

\* d seconds of iterations in which select times out (or raises OSError once,
\* the keyboard being gone): in the main loop each ends with _check_autosave.
IdleRun(w, d) ==
    LET a == w.app
        lost == a.keyboard /\ ~a.kbd_present
        k == [w EXCEPT !.app.keyboard = IF lost THEN FALSE ELSE a.kbd_present]
        until_save == IF a.save_age >= AUTOSAVE_INTERVAL THEN 1
                      ELSE AUTOSAVE_INTERVAL - a.save_age
    IN  IF a.dirty /\ d >= until_save
        THEN Age(SaveDocument(Age(k, until_save)), d - until_save)
        ELSE Age(k, d)

RECURSIVE WaitScanAnyPress(_, _, _)
\* A slip: the loop returns on the target key whether or not Ctrl is held.
WaitScanAnyPress(ctrl, batch, target) ==
    IF batch = <<>> THEN [ctrl |-> ctrl, hit |-> FALSE]
    ELSE LET ev == Head(batch)
         IN  IF ev.code = "CTRL" THEN WaitScanAnyPress(ev.value # 0, Tail(batch), target)
             ELSE IF ev.code = target /\ ev.value = 1
             THEN [ctrl |-> ctrl, hit |-> TRUE]
             ELSE WaitScanAnyPress(ctrl, Tail(batch), target)

RECURSIVE WaitScan(_, _, _)
\* The for-loop of _wait_for_wake and of _wait_for_key_or_timeout: the local
\* ctrl_held after the batch, and whether Ctrl+target was pressed.
WaitScan(ctrl, batch, target) ==
    IF batch = <<>> THEN [ctrl |-> ctrl, hit |-> FALSE]
    ELSE LET ev == Head(batch)
         IN  IF ev.code = "CTRL" THEN WaitScan(ev.value # 0, Tail(batch), target)
             ELSE IF ev.code = target /\ ev.value = 1 /\ ctrl
             THEN [ctrl |-> ctrl, hit |-> TRUE]
             ELSE WaitScan(ctrl, Tail(batch), target)

\* A slip: leaving the picker by Escape takes the selection over.
PickerCancelApplies(w) ==
    Return(ResumeTypewriterDisplay(
              [w EXCEPT !.app.active_layout = w.app.selected,
                        !.app.keymap = w.app.selected]), "picker_cancel")

\* Lines 523-526: Escape or Ctrl+K
PickerCancel(w) == Return(ResumeTypewriterDisplay(w), "picker_cancel")

\* A slip: Enter sets the layout and does not write the preference.
PickerEnterForgets(w) ==
    Return(ResumeTypewriterDisplay(
              [w EXCEPT !.app.active_layout = w.app.selected,
                        !.app.keymap = w.app.selected]), "picker_enter")

\* Lines 515-521: Enter
PickerEnter(w) ==
    Return(ResumeTypewriterDisplay(
              [w EXCEPT !.app.active_layout = w.app.selected,
                        !.app.keymap = w.app.selected,
                        !.app.layout_pref = w.app.selected]), "picker_enter")

RECURSIVE PickerScan(_, _)
\* The for-loop of _show_layout_picker.
PickerScan(w, batch) ==
    IF batch = <<>> THEN w
    ELSE LET ev == Head(batch)
             a == w.app
             up == (a.selected + NumLayouts - 1) % NumLayouts
             down == (a.selected + 1) % NumLayouts
         IN  IF ev.value = 0 THEN PickerScan(w, Tail(batch))
             ELSE IF ev.code = "CTRL"
             THEN PickerScan([w EXCEPT !.app.local_ctrl = (ev.value # 0)], Tail(batch))
             ELSE IF ev.code = "UP"
             THEN PickerScan([w EXCEPT !.app.selected = up,
                                       !.epd = EpdDisplayPartial(@, PickerImage(up))],
                             Tail(batch))
             ELSE IF ev.code = "DOWN"
             THEN PickerScan([w EXCEPT !.app.selected = down,
                                       !.epd = EpdDisplayPartial(@, PickerImage(down))],
                             Tail(batch))
             ELSE IF ev.code = "ENTER" THEN PickerEnter(w)
             ELSE IF ev.code = "ESC" \/ (ev.code = "K" /\ a.local_ctrl)
             THEN PickerCancel(w)
             ELSE PickerScan(w, Tail(batch))

\* One read of the loop of _wait_for_wake
SleepRead(w, batch) ==
    LET r == WaitScan(w.app.local_ctrl, batch, "Q")
    IN  IF r.hit THEN Wake(w, "sleep_wake")
        ELSE [w EXCEPT !.app.local_ctrl = r.ctrl]

\* One read of the loop of _wait_for_key_or_timeout(KEY_F, ...)
FsRead(w, batch, failing) ==
    LET r == WaitScan(w.app.local_ctrl, batch, "F")
    IN  IF r.hit THEN FsExit(w, "fs_cancel", failing)
        ELSE [w EXCEPT !.app.local_ctrl = r.ctrl]


\* The state at the start of _main_loop: run() has loaded a new document and
\* shown it, and the keyboard was looked for.
InitApp ==
    /\ epd = Fresh(EpdInitPartial(EpdDisplay(EpdInit(NewEPD), Render(NewApp))))
    /\ bt = NewBt
    /\ hw = NewHw
    /\ \E present \in BOOLEAN :
          app = [NewApp EXCEPT !.running = TRUE, !.needs_display_update = FALSE,
                               !.keyboard = present, !.kbd_present = present]

\* _main_loop: iterations whose select times out.
AppIdle ==
    /\ app.pc = "main" /\ app.running
    /\ \E d \in IdleSeconds : Commit(IdleRun(Begin(World), d))

\* _main_loop: an iteration that reads a batch of key events.
AppKeys ==
    /\ app.pc = "main" /\ app.running /\ app.kbd_present
    /\ \E batch \in Batches :
          /\ Len(app.text) + Typed(app.ctrl_held, batch) <= MaxText
          /\ \E in \in FsChoices(batch) :
                Commit(Dispatch(Found(Begin(World)), batch, in))

\* _main_loop: select or read raises OSError, the keyboard being gone.
AppKeyboardLost ==
    /\ app.pc = "main" /\ app.running /\ app.keyboard /\ ~app.kbd_present
    /\ Commit([Begin(World) EXCEPT !.app.keyboard = FALSE])

\* _main_loop: the for-loop goes on after a handler that returned from a mode.
AppDispatch ==
    /\ app.pc = "dispatch"
    /\ \E in \in FsChoices(app.pending) :
          Commit(Dispatch([Begin(World) EXCEPT !.app.pc = "main", !.app.pending = <<>>],
                          app.pending, in))

\* _wait_for_wake
AppSleepWait ==
    /\ app.pc = "sleep" /\ app.running
    /\ \E d \in IdleSeconds :
          Commit(Age([Begin(World) EXCEPT
                         !.app.keyboard = IF @ /\ ~app.kbd_present THEN FALSE
                                          ELSE app.kbd_present], d))

\* A slip: the sleep loop hands the events it reads to _handle_key.
AppSleepKeysHandled ==
    /\ app.pc = "sleep" /\ app.running /\ app.kbd_present
    /\ \E batch \in Batches :
          /\ Len(app.text) + Typed(app.ctrl_held, batch) <= MaxText
          /\ Commit(Dispatch(Found(Begin(World)), batch, NoFsInput))

AppSleepKeys ==
    /\ app.pc = "sleep" /\ app.running /\ app.kbd_present
    /\ \E batch \in Batches : Commit(SleepRead(Found(Begin(World)), batch))

AppSleepStop ==
    /\ app.pc = "sleep" /\ ~app.running
    /\ Commit(Wake(Begin(World), "sleep_stop"))

\* The input loop of _show_layout_picker
AppPickerWait ==
    /\ app.pc = "picker" /\ app.running
    /\ \E d \in IdleSeconds :
          Commit(Age([Begin(World) EXCEPT
                         !.app.keyboard = IF @ /\ ~app.kbd_present THEN FALSE
                                          ELSE app.kbd_present], d))

AppPickerKeys ==
    /\ app.pc = "picker" /\ app.running /\ app.kbd_present
    /\ \E batch \in Batches : Commit(PickerScan(Found(Begin(World)), batch))

AppPickerStop ==
    /\ app.pc = "picker" /\ ~app.running
    /\ Commit(Return(Begin(World), "picker_stop"))

\* A slip: the timeout taken for minutes.
FsTimedOutMinutes(a) == a.wait_elapsed >= BT_PAN_TIMEOUT \div 60

\* _wait_for_key_or_timeout(KEY_F, BT_PAN_TIMEOUT): timeout > 0 and
\* time.time() - start >= timeout

FsTimedOut(a) == a.wait_elapsed >= BT_PAN_TIMEOUT

AppFsTimeout ==
    /\ app.pc = "fs" /\ app.running /\ FsTimedOut(app)
    /\ \E failing \in AppStopFailures :
          Commit(FsExit(Begin(World), "fs_timeout", failing))

\* d seconds of iterations none of which, before the last has ended, finds the
\* timeout reached.
AppFsWait ==
    /\ app.pc = "fs" /\ app.running /\ ~FsTimedOut(app)
    /\ \E d \in IdleSeconds :
          /\ ~FsTimedOut([app EXCEPT !.wait_elapsed = @ + d - 1])
          /\ Commit(Age([Begin(World) EXCEPT
                            !.app.keyboard = IF @ /\ ~app.kbd_present THEN FALSE
                                             ELSE app.kbd_present], d))

AppFsKeys ==
    /\ app.pc = "fs" /\ app.running /\ ~FsTimedOut(app) /\ app.kbd_present
    /\ \E batch \in Batches, failing \in AppStopFailures :
          Commit(FsRead(Found(Begin(World)), batch, failing))

AppFsStop ==
    /\ app.pc = "fs" /\ ~app.running
    /\ \E failing \in AppStopFailures :
          Commit(FsExit(Begin(World), "fs_stop", failing))

\* A device joins the PAN while the file server is up.
AppPeerConnects ==
    /\ app.pc = "fs" /\ bt.powered /\ bt.nap /\ ~bt.peers
    /\ Commit([Begin(World) EXCEPT !.bt.peers = TRUE])

\* signal_handler
AppSignal ==
    /\ app.pc # "done" /\ app.running
    /\ Commit([Begin(World) EXCEPT !.app.running = FALSE])

\* The main loop ends and run() calls _shutdown.
AppShutdown ==
    /\ app.pc = "main" /\ ~app.running
    /\ Commit(Shutdown(Begin(World)))

AppPlug ==
    /\ app.pc # "done" /\ ~app.kbd_present
    /\ Commit([Begin(World) EXCEPT !.app.kbd_present = TRUE])

AppUnplug ==
    /\ app.pc # "done" /\ app.kbd_present
    /\ Commit([Begin(World) EXCEPT !.app.kbd_present = FALSE])

NextApp ==
    \/ AppIdle
    \/ AppKeys
    \/ AppKeyboardLost
    \/ AppDispatch
    \/ AppSleepWait
    \/ AppSleepKeys
    \/ AppSleepStop
    \/ AppPickerWait
    \/ AppPickerKeys
    \/ AppPickerStop
    \/ AppFsTimeout
    \/ AppFsWait
    \/ AppFsKeys
    \/ AppFsStop
    \/ AppPeerConnects
    \/ AppSignal
    \/ AppShutdown
    \/ AppPlug
    \/ AppUnplug

SpecApp == InitApp /\ [][NextApp]_vars

\* The steps the control thread takes without waiting for anything.
AppThread == AppFsStop \/ AppSleepStop \/ AppPickerStop \/ AppDispatch \/ AppShutdown

\* Time passes, and the control thread is scheduled.
SpecAppLive ==
    /\ SpecApp
    /\ WF_vars(AppFsWait) /\ WF_vars(AppFsTimeout) /\ WF_vars(AppThread)

(***************************************************************************)
(* SpecPersist: the application with a document that cannot always be      *)
(* written: open() or write() in save_document raises OSError.             *)
(***************************************************************************)
\* _main_loop is left by the error and run()'s finally clause calls _shutdown,
\* which finds the document dirty and writes it again.
ShutdownAfterSaveFailed(w, write_ok) ==
    IF write_ok THEN [Shutdown(w) EXCEPT !.app.ret = "save_failed"]
    ELSE [w EXCEPT !.app.pc = "done", !.app.ret = "save_failed",
                   !.app.shutdown = <<"save_failed">>]

\* Idle iterations in which _check_autosave is due and its write fails.  With
\* a keyboard the check is inside the try block (line 1560): the except
\* OSError clause takes the error for a lost keyboard, and the iterations that
\* follow find the keyboard and the check due again: d seconds of them.  With
\* no keyboard the check is outside the try block (line 1545) and the first
\* error leaves _main_loop.
AppAutosaveFails ==
    /\ app.pc = "main" /\ app.running /\ app.dirty
    /\ LET until_save == IF app.save_age >= AUTOSAVE_INTERVAL THEN 1
                          ELSE AUTOSAVE_INTERVAL - app.save_age
           w == [Begin(World) EXCEPT !.app.keyboard = FALSE]
       IN  IF app.kbd_present
           THEN \E d \in IdleSeconds :
                   Commit([Age(w, d) EXCEPT !.app.ret = "save_failed"])
           ELSE \E write_ok \in BOOLEAN :
                   Commit(ShutdownAfterSaveFailed(Age(w, until_save), write_ok))

\* Ctrl+S, lines 837-840, the write succeeding
AppSaveKey ==
    /\ app.pc = "main" /\ app.running /\ app.kbd_present /\ app.ctrl_held
    /\ Commit(FinishIteration([SaveDocument(Found(Begin(World))) EXCEPT
                                  !.app.needs_display_update = TRUE]))

\* Ctrl+S, the write failing: the error leaves _handle_key and the for-loop
\* and is caught by the main loop's except OSError clause.
AppSaveKeyFails ==
    /\ app.pc = "main" /\ app.running /\ app.kbd_present /\ app.ctrl_held
    /\ Commit([Begin(World) EXCEPT !.app.keyboard = FALSE, !.app.ret = "save_failed"])

NextPersist ==
    \/ AppIdle
    \/ AppKeys
    \/ AppKeyboardLost
    \/ AppDispatch
    \/ AppSleepWait
    \/ AppSleepKeys
    \/ AppSleepStop
    \/ AppPickerWait
    \/ AppPickerKeys
    \/ AppPickerStop
    \/ AppFsTimeout
    \/ AppFsWait
    \/ AppFsKeys
    \/ AppFsStop
    \/ AppPeerConnects
    \/ AppSignal
    \/ AppShutdown
    \/ AppPlug
    \/ AppUnplug
    \/ AppAutosaveFails
    \/ AppSaveKey
    \/ AppSaveKeyFails

SpecPersist == InitApp /\ [][NextPersist]_vars

(***************************************************************************)
(* SpecLoop: the main loop in Typing mode, with reads that return up to    *)
(* LoopMaxBatch events at once.  Ctrl is never pressed, so no handler      *)
(* leaves the mode.                                                        *)
(***************************************************************************)
\* The most events one keyboard.read() returns here.
LoopMaxBatch == 3
\* The longest text typed here.
LoopMaxText == 2

LoopEvents == {ev \in Events : ev.code \in {"Q", "ENTER", "UP", "BACKSPACE", "ESC"}}

LoopBatches == UNION {[1..n -> LoopEvents] : n \in 1..LoopMaxBatch}

\* One iteration of the main loop in which select() reports the keyboard.
LoopKeys ==
    /\ app.pc = "main" /\ app.running /\ app.kbd_present
    /\ \E batch \in LoopBatches :
          /\ Len(app.text) + Typed(app.ctrl_held, batch) <= LoopMaxText
          /\ Commit(Dispatch(Found(Begin(World)), batch, NoFsInput))

InitLoop == InitApp /\ app.kbd_present

NextLoop ==
    \/ LoopKeys
    \/ AppIdle

SpecLoop == InitLoop /\ [][NextLoop]_vars

(***************************************************************************)
(* SpecKeys: the keyboard through the modes.  The application starts with  *)
(* any content of the layout preference file, a keyboard is connected, no  *)
(* time passes, nothing fails and no character is typed (the keys are the  *)
(* modifier, the shortcuts and the keys of the picker); reads return up to *)
(* KeysMaxBatch events.                                                    *)
(* ctrl_down follows the Ctrl key through every event read, whichever loop *)
(* reads it and whether or not that loop gets to handle it.                *)
(***************************************************************************)
\* The most events one keyboard.read() returns here.
KeysMaxBatch == 2
KeysEvents ==
    {Ev(c, 1) : c \in {"CTRL", "Q", "F", "K", "ENTER", "ESC", "UP", "DOWN"}}
        \cup {Ev("CTRL", 0)}

KeysBatches == UNION {[1..n -> KeysEvents] : n \in 1..KeysMaxBatch}

\* What LAYOUT_CONFIG_FILE may hold when the application starts.
LayoutPrefs == (0..(NumLayouts - 1)) \cup {NoPref, BadPref}

\* _load_layout_pref: the layout the file names if it is one of LAYOUTS, else
\* "US QWERTY", the first of LAYOUT_NAMES.
LoadLayoutPref(a) ==
    IF a.layout_pref \in 0..(NumLayouts - 1)
    THEN [a EXCEPT !.active_layout = a.layout_pref, !.keymap = a.layout_pref]
    ELSE [a EXCEPT !.active_layout = 0, !.keymap = 0]

RECURSIVE CtrlAfter(_, _)
\* Whether Ctrl is down after the events of the batch, it being down or not
\* before them: a release (value 0) lets it up, a press or repeat holds it.
CtrlAfter(down, batch) ==
    IF batch = <<>> THEN down
    ELSE CtrlAfter(IF Head(batch).code = "CTRL" THEN Head(batch).value # 0 ELSE down,
                   Tail(batch))

\* The events of the batch have been read.
Heard(w, batch) == [w EXCEPT !.app.ctrl_down = CtrlAfter(@, batch)]

InitKeys ==
    /\ epd = Fresh(EpdInitPartial(EpdDisplay(EpdInit(NewEPD), Render(NewApp))))
    /\ bt = NewBt
    /\ hw = NewHw
    /\ \E pref \in LayoutPrefs :
          app = [LoadLayoutPref([NewApp EXCEPT !.layout_pref = pref])
                    EXCEPT !.running = TRUE, !.needs_display_update = FALSE,
                           !.keyboard = TRUE, !.kbd_present = TRUE]

\* _main_loop: an iteration that reads a batch of key events.
KeysMain ==
    /\ app.pc = "main" /\ app.running
    /\ \E batch \in KeysBatches :
          /\ Typed(app.ctrl_held, batch) = 0
          /\ Commit(Heard(Dispatch(Found(Begin(World)), batch, NoFsInput), batch))

\* _wait_for_wake: an iteration that reads a batch.
KeysSleep ==
    /\ app.pc = "sleep" /\ app.running
    /\ \E batch \in KeysBatches :
          Commit(Heard(SleepRead(Found(Begin(World)), batch), batch))

\* _show_layout_picker: an iteration that reads a batch.
KeysPicker ==
    /\ app.pc = "picker" /\ app.running
    /\ \E batch \in KeysBatches :
          Commit(Heard(PickerScan(Found(Begin(World)), batch), batch))

\* _wait_for_key_or_timeout: an iteration that reads a batch.
KeysFs ==
    /\ app.pc = "fs" /\ app.running
    /\ \E batch \in KeysBatches :
          Commit(Heard(FsRead(Found(Begin(World)), batch, {}), batch))

NextKeys ==
    \/ KeysMain
    \/ AppDispatch
    \/ KeysSleep
    \/ KeysPicker
    \/ KeysFs

SpecKeys == InitKeys /\ [][NextKeys]_vars

(***************************************************************************)
(* SpecThreads: the application with the steps of its other threads and of *)
(* its signal handler taken one by one, each changing only what its code   *)
(* assigns: they do not pass through the control thread's Begin.           *)
(***************************************************************************)
\* A slip: the request handler reloads the editor's document.
ThrHttpsServeEdits ==
    /\ app.https = "serving" /\ bt.peers
    /\ app' = [app EXCEPT !.text = <<>>, !.cursor = 0]
    /\ UNCHANGED <<epd, bt, hw>>

\* The HTTPS server thread serves a request (DocsHandler.do_GET): it lists
\* and reads the files of the documents directory and writes to its socket.
ThrHttpsServe ==
    /\ app.https = "serving" /\ bt.peers
    /\ UNCHANGED <<epd, bt, app, hw>>

\* The same handler in the plain HTTP server thread.
ThrHttpServe ==
    /\ app.http = "serving" /\ bt.peers
    /\ UNCHANGED <<epd, bt, app, hw>>

\* The bus event loop thread runs a method of the agent for a device that
\* pairs (each returns a constant or prints), and the device joins the PAN.
ThrBusEvent ==
    /\ bt.loop /\ bt.agent_registered /\ bt.powered /\ bt.nap /\ ~bt.peers
    /\ bt' = [bt EXCEPT !.peers = TRUE]
    /\ UNCHANGED <<epd, app, hw>>

\* signal_handler: self.running = False
ThrSignal ==
    /\ app.pc # "done" /\ app.running
    /\ app' = [app EXCEPT !.running = FALSE]
    /\ UNCHANGED <<epd, bt, hw>>

NextThreads ==
    \/ AppIdle
    \/ AppKeys
    \/ AppKeyboardLost
    \/ AppDispatch
    \/ AppSleepWait
    \/ AppSleepKeys
    \/ AppSleepStop
    \/ AppPickerWait
    \/ AppPickerKeys
    \/ AppPickerStop
    \/ AppFsTimeout
    \/ AppFsWait
    \/ AppFsKeys
    \/ AppFsStop
    \/ AppShutdown
    \/ AppPlug
    \/ AppUnplug
    \/ ThrHttpsServe
    \/ ThrHttpServe
    \/ ThrBusEvent
    \/ ThrSignal

SpecThreads == InitApp /\ [][NextThreads]_vars

\* Time passes in the main loop: its waits (select, sleep) end.
SpecAppIdleLive == SpecApp /\ WF_vars(AppIdle)

(***************************************************************************)
(* Properties of the driver (SpecDriver).                                  *)
(***************************************************************************)
HasItem(s, it) == \E i \in DOMAIN s : s[i] = it

HasFullActivation(s) ==
    \E i \in 1..(Len(s) - 1) :
        s[i] = Item("cmd", CMD_UPDATE_CTRL2) /\ s[i + 1] = Item("data", UPDATE_FULL)

HasHardReset(s) == HasItem(s, Item("rst", 0))

\* C2: a display_partial call made while less than 300 s have passed since the
\* last full refresh takes the partial path: it sends no reset pulse, no
\* software reset and no full-update activation, and it leaves
\* last_full_refresh as it was.  (Stated for every call, so also for each of
\* N consecutive calls after display(B).)
C2_PartialPathWithinInterval ==
    [][(epd'.op = "display_partial" /\ epd.refresh_age < FULL_REFRESH_INTERVAL)
        => /\ ~HasHardReset(epd'.sent)
           /\ ~HasItem(epd'.sent, Item("cmd", CMD_SW_RESET))
           /\ ~HasFullActivation(epd'.sent)
           /\ epd'.refresh_age = epd.refresh_age]_vars

\* C2 witness: a third consecutive partial update after a full one, some time
\* after it and within the interval.
C2_Witness ==
    /\ epd.op = "display_partial"
    /\ epd.partial_count >= 2
    /\ epd.refresh_age > 0
    /\ epd.refresh_age < FULL_REFRESH_INTERVAL
    /\ ~HasHardReset(epd.sent)
    /\ epd.panel.dstate = "PartialReady"
    /\ epd.panel.ram_new = epd.arg /\ epd.panel.ram_old = epd.arg /\ epd.panel.shown = epd.arg

\* C3: a display_partial(B) call made when 300 s or more have passed since the
\* last full refresh writes to the panel exactly what init(); display(B);
\* init_partial() writes, which is what full_refresh(B) writes, and ends with
\* partial_count = 0 and last_full_refresh = now.
C3_RedirectIsFullRefresh ==
    [][(epd'.op = "display_partial" /\ epd.refresh_age >= FULL_REFRESH_INTERVAL)
        => LET b == epd'.arg
               s == EpdInitPartial(EpdDisplay(EpdInit(Fresh(epd)), b))
               f == EpdFullRefresh(Fresh(epd), b)
           IN  /\ epd'.sent = s.sent
               /\ epd'.sent = f.sent
               /\ epd'.panel.ram_new = f.panel.ram_new /\ epd'.panel.ram_old = f.panel.ram_old
               /\ epd'.panel.shown = f.panel.shown /\ epd'.panel.dstate = f.panel.dstate
               /\ epd'.partial_count = 0
               /\ epd'.refresh_age = 0]_vars

\* C3 witness: a display_partial call that was redirected.
C3_Witness ==
    /\ epd.op = "display_partial"
    /\ HasHardReset(epd.sent)
    /\ HasFullActivation(epd.sent)
    /\ epd.partial_count = 0
    /\ epd.refresh_age = 0
    /\ epd.panel.dstate = "PartialReady"
    /\ epd.panel.shown = epd.arg

\* C10: display_partial called when the display is not PartialReady, and
\* display called when it is Uninitialized or Sleeping, send nothing to the
\* panel and change no driver state.
C10_TransitionTableTotal ==
    [][(\/ epd'.op = "display_partial" /\ epd.panel.dstate # "PartialReady"
        \/ epd'.op = "display" /\ epd.panel.dstate \in {"Uninitialized", "Sleeping"})
        => /\ epd'.sent = <<>>
           /\ epd'.partial_count = epd.partial_count
           /\ epd'.refresh_age = epd.refresh_age
           /\ epd'.panel.ram_new = epd.panel.ram_new /\ epd'.panel.ram_old = epd.panel.ram_old]_vars

RenderOps == {"display", "display_partial", "full_refresh", "clear"}

\* s has, next to one another: the current plane written with b, the partial
\* activation (0x22, 0xFF, 0x20), a wait for the busy line; and the first write
\* of the previous plane comes after them, and is of b.
PartialSequence(s, b) ==
    \E i \in 1..(Len(s) - 5), k \in 1..(Len(s) - 1) :
        /\ s[i] = Item("cmd", CMD_WRITE_NEW) /\ s[i + 1] = Bulk(b)
        /\ s[i + 2] = Item("cmd", CMD_UPDATE_CTRL2)
        /\ s[i + 3] = Item("data", UPDATE_PARTIAL)
        /\ s[i + 4] = Item("cmd", CMD_ACTIVATE)
        /\ s[i + 5] = Item("wait", 0)
        /\ k > i + 5
        /\ s[k] = Item("cmd", CMD_WRITE_OLD) /\ s[k + 1] = Bulk(b)
        /\ \A m \in 1..(k - 1) : s[m] # Item("cmd", CMD_WRITE_OLD)

\* C25: when display, display_partial (on either path), full_refresh or clear
\* has returned, it has written the buffer it was given to both planes, and a
\* panel that is not in deep sleep holds it in both; and a display_partial
\* that was not redirected has written the current plane, sent the partial
\* activation and waited for the busy line before it wrote the previous plane.
C25_RamPlanesInSync ==
    /\ [](epd.op \in RenderOps
            => /\ HasItem(epd.sent, Bulk(epd.arg))
               /\ \E i, j \in 1..(Len(epd.sent) - 1) :
                     /\ epd.sent[i] = Item("cmd", CMD_WRITE_NEW)
                     /\ epd.sent[i + 1] = Bulk(epd.arg)
                     /\ epd.sent[j] = Item("cmd", CMD_WRITE_OLD)
                     /\ epd.sent[j + 1] = Bulk(epd.arg)
               /\ Listening(epd.panel)
                     => (epd.panel.ram_new = epd.arg /\ epd.panel.ram_old = epd.arg))
    /\ [][(epd'.op = "display_partial" /\ ~RefreshDue(epd))
            => PartialSequence(epd'.sent, epd'.arg)]_vars

\* C25 witness: a partial update has replaced the image in both planes.
C25_Witness ==
    /\ epd.op = "display_partial" /\ epd.arg = PickerImage(1)
    /\ ~HasItem(epd.sent, Item("rst", 0))
    /\ HasItem(epd.sent, Item("wait", 0))
    /\ epd.panel.ram_new = PickerImage(1) /\ epd.panel.ram_old = PickerImage(1)
    /\ epd.panel.shown = PickerImage(1)

\* C26: partial_count starts at 0; display, init_partial and what is made of
\* them (clear, full_refresh) leave it 0, and so does a display_partial that is
\* redirected; a display_partial that is not redirected adds exactly 1 to it
\* (up to the number where the model stops counting); init, sleep and the
\* passing of time leave it as it is.  So between calls it is the number of
\* display_partial calls that took the partial path since the last display or
\* init_partial.
C26_PartialCounter ==
    /\ (epd.op = "new" => epd.partial_count = 0)
    /\ [][/\ epd'.op \in {"display", "init_partial", "full_refresh", "clear"}
              => epd'.partial_count = 0
          /\ (epd'.op = "display_partial" /\ RefreshDue(epd))
              => epd'.partial_count = 0
          /\ (epd'.op = "display_partial" /\ ~RefreshDue(epd))
              => epd'.partial_count = Min(epd.partial_count + 1, MaxPartialCount)
          /\ epd'.op \in {"init", "sleep", "none"}
              => epd'.partial_count = epd.partial_count]_vars

\* C26 witness: one partial update since the last full one, and then an init,
\* which has left the count at 1.
C26_Witness ==
    /\ epd.op = "init" /\ epd.partial_count = 1
    /\ epd.panel.dstate = "FullReady"
    /\ epd.panel.ram_new # NoImage /\ epd.panel.ram_new = epd.panel.ram_old

(***************************************************************************)
(* Properties of the waits on the busy line (SpecBusy).                    *)
(***************************************************************************)
\* C11: when reset() has returned, it has reported a HardwareTimeout if its
\* wait on the busy line timed out, and success only if the line cleared.
C11_ResetReportsTimeout ==
    hw.done = "reset"
        => /\ hw.timed_out => hw.outcome = "HardwareTimeout"
           /\ hw.outcome = "None" => ~hw.timed_out

\* C12: _wait_busy returns False only with the line busy and more than the
\* timeout elapsed, and True only with the line clear; and every call of
\* reset, init, init_partial, display and display_partial returns in the end,
\* whatever the busy line does.
C12_BoundedHardwareWait ==
    /\ [][(hw'.last = "False") => (hw.busy /\ hw.elapsed > WAIT_BUSY_TIMEOUT)]_vars
    /\ [][(hw'.last = "True") => ~hw.busy]_vars
    /\ \A m \in BusyMethods : (hw.call = m) ~> (hw.done = m)

\* C12 witness: a redirected display_partial has returned, the busy line still
\* held, after a wait of it gave up.
C12_Witness ==
    /\ hw.done = "display_partial" /\ hw.due
    /\ hw.last = "False" /\ hw.timed_out
    /\ hw.busy
    /\ epd.op = "display_partial"

\* C28: when display or display_partial has returned after its wait on the
\* busy line timed out, it has stopped at that wait: display has not set
\* last_full_refresh to now (the time of the wait, more than 30 s, shows in its
\* age), and a display_partial on the partial path, whose wait comes before the
\* write of the previous plane, has not written that plane.
C28_AbortOnTimeout ==
    /\ (hw.done = "display" /\ hw.timed_out)
          => epd.refresh_age > WAIT_BUSY_TIMEOUT
    /\ (hw.done = "display_partial" /\ ~hw.due /\ hw.timed_out)
          => ~HasItem(epd.sent, Item("cmd", CMD_WRITE_OLD))

(***************************************************************************)
(* Session properties                                                      *)
(***************************************************************************)
\* C5: whichever steps of _stop_bt_pan fail, the call attempts all eight of
\* them, in order.
C5_TeardownAttemptsEveryStep ==
    bt.call = "stop" => bt.log = StopOrder

Released(b) ==
    /\ ~b.agent_registered
    /\ ~b.discoverable /\ ~b.pairable /\ ~b.powered
    /\ ~b.nap
    /\ ~b.bridge
    /\ ~b.dnsmasq

\* C6: when _start_bt_pan returns None, the agent is unregistered, the adapter
\* is neither discoverable nor pairable nor powered, the NAP registration and
\* the bridge are gone, and no DHCP helper runs.
C6_AcquisitionRollback ==
    (bt.call = "start" /\ bt.state = "None") => Released(bt)

\* C13: a second call of _stop_bt_pan with the same session state raises
\* nothing and attempts no release step.
C13_TeardownIdempotent ==
    bt.call = "stop_again" => (~bt.raised /\ bt.log = <<>>)

StopSteps == {StopOrder[i] : i \in DOMAIN StopOrder}

\* C29: once the agent object exists it is kept, and no later _start_bt_pan
\* constructs one; once the main-loop default is set it stays set, and no
\* later _start_bt_pan sets it; a _start_bt_pan that returns a state has
\* registered the agent (the object it found or the one it made); and after a
\* _stop_bt_pan whose UnregisterAgent call did not fail, the agent is not
\* registered while the object is still there.
C29_AgentReuse ==
    /\ [][bt.agent_obj => bt'.agent_obj]_vars
    /\ [][bt.mainloop_set => bt'.mainloop_set]_vars
    /\ [][(bt'.call = "start" /\ bt.agent_obj) => ~HasItem(bt'.log, "agent_obj")]_vars
    /\ [][(bt'.call = "start" /\ bt.mainloop_set) => ~HasItem(bt'.log, "mainloop")]_vars
    /\ [][(bt'.call = "start" /\ bt'.state = "dict")
            => /\ HasItem(bt'.log, "register_agent")
               /\ bt'.agent_registered /\ bt'.agent_obj]_vars
    /\ [][(bt'.call = "stop")
            => /\ HasItem(bt'.log, "agent_unregister")
               /\ bt'.agent_obj
               /\ \A failing \in SUBSET StopSteps :
                     ("agent_unregister" \notin failing
                        /\ bt' = [StopBtPan(BtFresh(bt), failing) EXCEPT !.state = "None"])
                     => ~bt'.agent_registered]_vars

\* C29 witness: a session is up that found the agent object of an earlier
\* session and registered it again.
C29_Witness ==
    /\ bt.call = "start" /\ bt.state = "dict"
    /\ ~HasItem(bt.log, "agent_obj") /\ ~HasItem(bt.log, "mainloop")
    /\ HasItem(bt.log, "register_agent")
    /\ bt.agent_obj /\ bt.agent_registered /\ bt.mainloop_set

(***************************************************************************)
(* Application properties                                                  *)
(***************************************************************************)
\* The ways a mode function returns to the main loop with the process running.
ModeReturns ==
    {"sleep_wake", "picker_enter", "picker_cancel",
     "fs_pan_failed", "fs_https_failed", "fs_cancel", "fs_timeout"}

\* C1: when a mode function has returned to the main loop and the process keeps
\* running, the display is PartialReady and the panel shows the rendering of
\* the current document.
C1_ModeRoundTrip ==
    (app.ret \in ModeReturns /\ ~bt.raised /\ app.running)
        => /\ epd.panel.dstate = "PartialReady"
           /\ epd.panel.shown = Render(app)

\* C4: whenever the display is PartialReady, no more than 300 s have passed
\* since the last full refresh.
C4_RefreshPolicy ==
    epd.panel.dstate = "PartialReady" => epd.refresh_age <= FULL_REFRESH_INTERVAL

\* C7: a failed entry into the file server mode ends in the main loop with the
\* session torn down, _resume_typewriter_display run, and the typing screen,
\* not the instruction screen, on the panel.
C7_FailedEntryFallsBack ==
    (app.ret \in {"fs_pan_failed", "fs_https_failed"} /\ ~bt.raised)
        => /\ app.pc = "dispatch"
           /\ Released(bt)
           /\ epd.op = "init_partial"
           /\ epd.panel.shown # FsImage
           /\ epd.panel.shown = Render(app)

\* The modes other than Typing, by the place of the control thread.
OtherModes == {"sleep", "picker", "fs"}

\* C14: while a mode other than Typing is active, a step either stays in that
\* mode or returns from it to the main loop (pc "dispatch", or "main" when the
\* teardown raised): no other mode is entered; and nothing the Typing handler
\* owns (text, cursor, dirty flag, its ctrl_held, the document) changes.
C14_OneModeActive ==
    [][(app.pc \in OtherModes)
        => /\ app'.pc \in {app.pc, "dispatch", "main"}
           /\ (app'.pc = "main" => bt'.raised)
           /\ app'.text = app.text /\ app'.cursor = app.cursor
           /\ app'.dirty = app.dirty /\ app'.doc = app.doc
           /\ app'.ctrl_held = app.ctrl_held]_vars

\* C14 witness: the sleep loop has read a Ctrl press (its own ctrl_held is set)
\* and the mode is still active, a text typed before it untouched.
C14_Witness ==
    /\ app.pc = "sleep" /\ app.running
    /\ app.local_ctrl /\ app.keyboard
    /\ app.text # <<>>

\* C15: _check_autosave saves exactly when dirty is set and 10 s or more have
\* passed since the last save; the save clears dirty and sets last_save_time to
\* now, and a check that does not save changes nothing.  So a main loop
\* iteration that edits the text and enters no mode (a mode may save on its
\* own) ends saved if the 10 s had passed when it began and dirty, with
\* last_save_time untouched, if not; and a run of idle iterations longer than
\* the interval leaves no document dirty.
C15_AutosaveRule ==
    /\ [](LET w == World
              c == CheckAutosave(w)
          IN  IF app.dirty /\ app.save_age >= AUTOSAVE_INTERVAL
              THEN c = [w EXCEPT !.app.dirty = FALSE, !.app.save_age = 0]
              ELSE c = w)
    /\ [][(app.pc = "main" /\ app'.pc = "main" /\ app'.ret = "none"
            /\ app'.text # app.text)
            => IF app.save_age >= AUTOSAVE_INTERVAL
               THEN ~app'.dirty /\ app'.save_age = 0
               ELSE app'.dirty /\ app'.save_age = app.save_age]_vars
    /\ [][AppIdle => ~app'.dirty]_vars

\* C15 witness: a key was typed 10 s or more after the last save; the
\* iteration rendered the text, still marked dirty, and then saved it.
C15_Witness ==
    /\ app.pc = "main" /\ app.running
    /\ epd.op = "display_partial" /\ epd.arg.dirty /\ epd.arg.text = app.text
    /\ app.text # <<>>
    /\ ~app.dirty /\ app.save_age = 0

\* C16: in Typing mode with the process running, a dirty document is saved in
\* the end (or the mode or the process is left, which save on their way or,
\* for the layout picker, suspend the main loop), whether or not another key
\* event arrives and whether or not a keyboard is connected.
C16_HousekeepingAbsentInput ==
    (app.pc = "main" /\ app.running /\ app.dirty)
        ~> (~app.dirty \/ app.pc # "main" \/ ~app.running)

\* C16 witness: with no keyboard connected, the idle loop has saved the text;
\* the panel still shows it marked dirty, nothing having been rendered since.
C16_Witness ==
    /\ app.pc = "main" /\ app.running
    /\ ~app.keyboard /\ ~app.kbd_present
    /\ app.text # <<>> /\ ~app.dirty
    /\ epd.op = "none"
    /\ epd.panel.shown.dirty /\ epd.panel.shown.text = app.text

\* C17: when a write of save_document fails in the main loop, the error
\* reaches the caller of _main_loop: the loop is left.
C17_SaveFailurePropagates ==
    app.ret = "save_failed" => app.pc = "done"

\* The loops that read the keyboard, by the place of the control thread.
KeyboardLoops == {"main", "sleep", "picker", "fs"}

\* C18: a step in which the keyboard handle is dropped because reading failed
\* leaves the mode, the text and the cursor as they were, and the dirty flag
\* too (but a main loop iteration after the loss may autosave); and an
\* iteration of any of the loops that begins without a handle, the stop flag
\* not set, ends with one if a keyboard is there to be found.
C18_InputSourceLost ==
    /\ [][(app.keyboard /\ ~app'.keyboard /\ ~bt'.raised)
            => /\ app'.pc = app.pc
               /\ app'.text = app.text /\ app'.cursor = app.cursor
               /\ (app'.dirty = app.dirty \/ (app.pc = "main" /\ ~app'.dirty))]_vars
    /\ [][(/\ app.pc \in KeyboardLoops /\ app'.pc = app.pc
            /\ app.running /\ app'.running
            /\ ~app.keyboard /\ app.kbd_present /\ app'.kbd_present
            /\ bt'.peers = bt.peers /\ ~bt'.raised)
            => app'.keyboard]_vars

\* C18 witness: the keyboard was lost while the layout picker was open, and
\* the picker is still open, the unsaved text as it was.
C18_Witness ==
    /\ app.pc = "picker" /\ app.running
    /\ ~app.keyboard /\ ~app.kbd_present
    /\ app.dirty /\ app.text # <<>>

\* C19: a step of the HTTPS server thread, of the HTTP server thread, of the
\* bus event loop thread or of the signal handler sends nothing to the display
\* and changes none of the driver's fields, and leaves the text, the cursor,
\* the dirty flag and the document as they are: the driver is called and the
\* text changed only in steps of the control thread, which are taken one
\* after another.
C19_SingleOwner ==
    [][(ThrHttpsServe \/ ThrHttpServe \/ ThrBusEvent \/ ThrSignal)
        => /\ epd' = epd
           /\ app'.text = app.text /\ app'.cursor = app.cursor
           /\ app'.dirty = app.dirty /\ app'.doc = app.doc]_vars

\* C19 witness: the file server is up, its threads serving; the bus thread
\* has let a device in and the signal handler has run since the control
\* thread's last step, the one that drew the instruction screen: the driver
\* still shows that call as its last.
C19_Witness ==
    /\ app.pc = "fs" /\ app.https = "serving" /\ app.http = "serving"
    /\ bt.loop /\ bt.peers
    /\ ~app.running
    /\ epd.op = "display" /\ epd.arg = FsImage /\ epd.panel.shown = FsImage

\* The ways _file_server_mode ends after its servers were started.
FsWaitReturns == {"fs_cancel", "fs_timeout", "fs_stop"}

\* C20: outside the file server mode (typing, sleeping, layout picker, shut
\* down) no server thread serves and the bus event loop does not run.  When
\* _file_server_mode has ended after its wait (Ctrl+F, timeout, stop flag),
\* shutdown() was called on the HTTPS server and on the HTTP server if one was
\* started, and quit() on the bus loop; when it has ended because the HTTPS
\* server did not start, no server was started and quit() was called on the
\* bus loop; when it has ended because the PAN did not come up, no thread was
\* started at all.
C20_ThreadsOnlyInFileServer ==
    /\ [](app.pc # "fs"
            => (app.https # "serving" /\ app.http # "serving" /\ ~bt.loop))
    /\ [][(app.pc = "fs" /\ app'.pc # "fs")
            => /\ app'.ret \in FsWaitReturns
               /\ app'.https = "shutdown"
               /\ app'.http = (IF app.http = "serving" THEN "shutdown" ELSE "none")
               /\ HasItem(bt'.log, "loop_quit") /\ ~bt'.loop]_vars
    /\ [](app.ret = "fs_https_failed"
            => /\ app.https = "none" /\ app.http = "none"
               /\ HasItem(bt.log, "loop_quit") /\ ~bt.loop)
    /\ [](app.ret = "fs_pan_failed"
            => /\ app.https = "none" /\ app.http = "none"
               /\ ~HasItem(bt.log, "loop_quit") /\ ~bt.loop)

\* C20 witness: the wait was ended by Ctrl+F with both servers serving; both
\* were shut down, the loop was told to quit, and the typing screen is back.
C20_Witness ==
    /\ app.ret = "fs_cancel" /\ app.pc = "dispatch" /\ app.running
    /\ app.https = "shutdown" /\ app.http = "shutdown"
    /\ HasItem(bt.log, "loop_quit") /\ ~bt.loop /\ ~bt.raised
    /\ epd.panel.shown = Render(app)

\* The finally block of _file_server_mode has run: no server serves, and
\* _stop_bt_pan was called and has stopped the DHCP helper and the bus loop.
TornDown(a, b) ==
    /\ a.https = "shutdown" /\ a.http # "serving"
    /\ b.call = "stop"
    /\ ~b.dnsmasq /\ ~b.loop

ClearedThenSlept(e) ==
    LET s == e.sent
        n == Len(s)
    IN  /\ n >= 2
        /\ s[1] = Item("rst", 0)
        /\ s[n - 1] = Item("cmd", CMD_DEEP_SLEEP) /\ s[n] = Item("data", 1)
        /\ \E i \in 1..(n - 1) : s[i] = Item("cmd", CMD_WRITE_NEW) /\ s[i + 1] = Bulk(WhiteImage)
        /\ HasFullActivation(s)
        /\ e.panel.shown = WhiteImage
        /\ e.panel.dstate = "Sleeping"

SleepThenReset(s) ==
    \A i \in DOMAIN s :
        s[i] = Item("cmd", CMD_DEEP_SLEEP)
            => /\ i + 1 <= Len(s) /\ s[i + 1] = Item("data", 1)
               /\ i + 2 <= Len(s) => s[i + 2] = Item("rst", 0)

\* C21: once the deep-sleep command and its data byte are sent, the next thing
\* that goes to the panel, in the same step or in any later one, is a reset
\* pulse.
C21_SleepRequiresReset ==
    /\ [](SleepThenReset(epd.sent))
    /\ [][(epd.panel.dstate = "Sleeping" /\ epd'.sent # <<>>)
            => epd'.sent[1] = Item("rst", 0)]_vars

\* C21 witness: the panel was put to sleep by Ctrl+Q and woken by the next
\* Ctrl+Q; the wake-up began with a reset pulse and has drawn the document.
C21_Witness ==
    /\ app.ret = "sleep_wake"
    /\ epd.sent # <<>> /\ epd.sent[1] = Item("rst", 0)
    /\ HasItem(epd.sent, Bulk(Render(app)))
    /\ epd.panel.dstate = "PartialReady" /\ epd.panel.shown = Render(app)

\* C27: wherever init_partial is entered, in a composite of the application
\* or of the driver, the two methods entered just before it are init and then
\* display, so both planes hold the image of that display; when init_partial
\* was the last call of a step, the planes hold one and the same image.
C27_InitPartialAfterFullDraw ==
    /\ \A i \in DOMAIN epd.calls :
          epd.calls[i] = "init_partial"
              => /\ i >= 3
                 /\ epd.calls[i - 1] = "display" /\ epd.calls[i - 2] = "init"
    /\ epd.op = "init_partial"
          => (epd.panel.ram_new # NoImage /\ epd.panel.ram_new = epd.panel.ram_old)

\* C27 witness: a partial render in the main loop was redirected by the
\* driver, which went through init, display and init_partial.
C27_Witness ==
    /\ epd.calls = <<"display_partial", "init", "display", "init_partial", "init">>
    /\ app.pc = "main" /\ epd.panel.ram_new = Render(app)
    /\ epd.panel.ram_old = Render(app)

IsDisplayPartial(method) == method = "display_partial"

\* The display_partial calls of the step.
PartialRenders(e) == Len(SelectSeq(e.calls, IsDisplayPartial))

\* C30: the end of a main loop iteration calls display_partial once, with the
\* image rendered from the document as it then is, when needs_display_update
\* is set, and not at all when it is not, and leaves the flag clear either
\* way.  So an iteration that dispatched one event or several has called
\* display_partial at most once, after the last of them (the image has the
\* text and the cursor the iteration ends with), and has called it if any of
\* them changed the text or moved the cursor.
C30_RenderDispatch ==
    /\ [](\A f \in BOOLEAN :
            LET x == [Begin(World) EXCEPT !.app.needs_display_update = f]
                r == FinishIteration(x)
            IN  /\ PartialRenders(r.epd) = (IF f THEN 1 ELSE 0)
                /\ ~r.app.needs_display_update
                /\ f => (r.epd.op = "display_partial" /\ r.epd.arg = Render(x.app))
                /\ ~f => r.epd = x.epd)
    /\ [][LoopKeys
            => /\ PartialRenders(epd') <= 1
               /\ ~app'.needs_display_update
               /\ PartialRenders(epd') = 1
                     => /\ epd'.op = "display_partial"
                        /\ epd'.calls[1] = "display_partial"
                        /\ epd'.arg.text = app'.text /\ epd'.arg.cursor = app'.cursor
               /\ (app'.text # app.text \/ app'.cursor # app.cursor)
                     => PartialRenders(epd') = 1]_vars

\* C30 witness: an iteration has drawn a text of two characters with its one
\* partial render, the first since the last full refresh.
C30_Witness ==
    /\ app.pc = "main" /\ Len(app.text) = 2
    /\ epd.calls = <<"display_partial">> /\ epd.partial_count = 1
    /\ epd.refresh_age = 0
    /\ epd.arg.text = app.text /\ epd.panel.shown = epd.arg
    /\ ~app.needs_display_update

(***************************************************************************)
(* Properties of the process from its start (SpecBoot)                     *)
(***************************************************************************)
\* _start_bt_pan as it reaches "ip link add": the statements before it done.
AtBridgeAdd(b) == StartRun(BtFresh(b), 1, BridgeAddAt - 1)

TeardownOrder ==
    <<"https_shutdown", "http_shutdown", "dnsmasq_stop", "nap_unregister",
      "adapter_hide", "agent_unregister", "disconnect_peers", "bridge_del",
      "power_off">>

NotLoopQuit(step) == step # "loop_quit"

NotHttpShutdown(step) == step # "http_shutdown"

IsPrefix(s, t) == Len(s) <= Len(t) /\ s = SubSeq(t, 1, Len(s))

\* C23: when the file server wait is left, by Ctrl+F, the timeout or the stop
\* flag, the release steps the finally block runs are, in this order: HTTPS
\* server shutdown, HTTP server shutdown (if that server was started), DHCP
\* helper stop, NAP unregistration, adapter hidden, agent unregistration,
\* peers disconnected, bridge removed, radio powered off.  No step is left out
\* before one that runs: the run is that list, or, when the bridge removal
\* raises, the list up to the bridge removal.
C23_TeardownOrder ==
    [][(app.pc = "fs" /\ app'.pc # "fs")
        => LET released == SelectSeq(app'.cleanup, NotLoopQuit)
               expected == IF app.http = "serving" THEN TeardownOrder
                           ELSE SelectSeq(TeardownOrder, NotHttpShutdown)
           IN  /\ IsPrefix(released, expected)
               /\ IF bt'.raised
                  THEN released[Len(released)] = "bridge_del"
                  ELSE released = expected]_vars

\* C23 witness: the wait has timed out with both servers up, and all nine
\* release steps have run.
C23_Witness ==
    /\ app.ret = "fs_timeout"
    /\ SelectSeq(app.cleanup, NotLoopQuit) = TeardownOrder
    /\ ~bt.powered /\ ~bt.bridge

\* The acquisition steps the claim names.
AcquisitionOrder ==
    <<"register_agent", "discoverable", "pairable", "bridge_add", "addr", "nap",
      "dnsmasq", "https_start", "http_start">>

InAcquisitionOrder(step) == HasItem(AcquisitionOrder, step)

\* C24: what one entry into the file server mode attempts, of the steps agent
\* registration, adapter discoverable and pairable, bridge creation, address
\* and forwarding, NAP registration, DHCP helper start, HTTPS server, HTTP
\* server, is an initial part of that list in that order; a server is started
\* only with all the PAN steps done and _start_bt_pan having returned a state,
\* and when _start_bt_pan returned None no server is or was started.
C24_AcquisitionOrder ==
    /\ IsPrefix(SelectSeq(app.setup, InAcquisitionOrder), AcquisitionOrder)
    /\ HasItem(app.setup, "https_start")
          => (bt.state = "dict" /\ app.ret = "none" /\ app.https = "serving")
    /\ app.ret = "fs_pan_failed"
          => /\ ~HasItem(app.setup, "https_start") /\ ~HasItem(app.setup, "http_start")
             /\ app.https = "none" /\ app.http = "none"
    /\ app.https = "serving" => bt.state = "dict"

\* C24 witness: a session has just come up, every step of the list done.
C24_Witness ==
    /\ SelectSeq(app.setup, InAcquisitionOrder) = AcquisitionOrder
    /\ app.pc = "fs" /\ bt.state = "dict"
    /\ app.https = "serving" /\ app.http = "serving"

(***************************************************************************)
(* The editor: _handle_key on the keys that edit the text, move the cursor *)
(* and save, open and switch documents, with the documents of DOCS_DIR     *)
(* followed.  The docs directory is empty when run() loads a new document, *)
(* named by second 0 of the clock.  The display is not followed here.      *)
(***************************************************************************)
\* The longest text the editor model types.
EditMaxText == 4
\* The longest text the editor model writes to a file.
EditMaxSaved == 1
\* chars_per_line in the editor model: a wide font.
EditCharsPerLine == 2
\* The last second of the clock in the editor model.
EditMaxClock == 1

Paths == 0..EditMaxClock

EditEvents ==
    {Ev(c, 1) : c \in {"CTRL", "A", "SPACE", "TAB", "ENTER", "BACKSPACE", "DELETE",
                       "LEFT", "RIGHT", "UP", "DOWN", "HOME", "END", "S", "N"}}
       \cup {Ev("CTRL", 0)}

\* The state within the bounds of the editor model.
EditBounded(a) ==
    /\ Len(a.text) <= EditMaxText
    /\ \A p \in DOMAIN a.files : Len(a.files[p].text) <= EditMaxSaved

InitEdit ==
    /\ epd = Fresh(EpdInitPartial(EpdDisplay(EpdInit(NewEPD), Render(NewApp))))
    /\ bt = NewBt
    /\ hw = NewHw
    /\ app = [NewApp EXCEPT !.running = TRUE, !.needs_display_update = FALSE,
                            !.keyboard = TRUE, !.kbd_present = TRUE,
                            !.chars_per_line = EditCharsPerLine,
                            !.files = [p \in Paths |-> [on |-> FALSE, text |-> <<>>]],
                            !.doc = 0, !.clock = 0]

\* _handle_key on one event.  S and N are pressed as shortcuts only, and N
\* not before the second after the one run() loaded its document in: the
\* display is brought up in between.
EditKey ==
    \E ev \in EditEvents :
       /\ ev.code \in {"S", "N"} => app.ctrl_held
       /\ ev.code = "N" => app.clock > 0
       /\ app' = HandleKey(World, ev, NoFsInput).app
       /\ EditBounded(app')
       /\ UNCHANGED <<epd, bt, hw>>

\* _check_autosave, AUTOSAVE_INTERVAL after the last save; a check that finds
\* the text saved changes nothing.
EditAutosave ==
    /\ app.dirty
    /\ app' = CheckAutosave([World EXCEPT !.app.save_age = AUTOSAVE_INTERVAL]).app
    /\ EditBounded(app')
    /\ UNCHANGED <<epd, bt, hw>>

\* The clock reaches the next second.
EditTick ==
    /\ app.clock < EditMaxClock
    /\ app' = [app EXCEPT !.clock = @ + 1]
    /\ UNCHANGED <<epd, bt, hw>>

NextEdit == EditKey \/ EditAutosave \/ EditTick

SpecEdit == InitEdit /\ [][NextEdit]_vars

(***************************************************************************)
(* Properties of the editor state across the modes.                        *)
(***************************************************************************)
\* C33: whenever a mode other than Typing is active (the sleep loop, the
\* layout picker, the file server wait), the document has no unsaved changes:
\* dirty is false.
C33_SavedOutsideTyping ==
    app.pc \in OtherModes => ~app.dirty

\* C34: when an iteration of the main loop in Typing mode has completed
\* without error (keys were read and handled with no mode entered, or the wait
\* for input timed out), the image on the panel is the rendering of the state
\* as it is then: text, cursor, document name and dirty indicator.
C34_DisplayFresh ==
    [][((AppKeys \/ AppIdle) /\ app'.pc = "main" /\ app'.ret = "none")
        => epd'.panel.shown = Render(app')]_vars

\* C39: when run() has ended, _shutdown has called epd.close(), whether or not
\* the final save and the init, clear and sleep of the panel succeeded.
C39_ShutdownReleasesHardware ==
    app.pc = "done" => app.closed

(***************************************************************************)
(* Properties of the document file while the servers run (SpecThreads).    *)
(***************************************************************************)
Serving(a) == a.https = "serving" \/ a.http = "serving"

\* C38: the control thread writes no document while a server is serving.  The
\* entry into the file server mode saves the document before it starts the
\* first server; and no step taken while a server is serving calls
\* save_document (which would set last_save_time to now and clear dirty) or
\* changes the text.
C38_NoWriteWhileServing ==
    /\ [][HasItem(app'.setup, "https_start")
            => (Head(app'.setup) = "save"
                  /\ SelectSeq(app'.setup, LAMBDA x : x = "save") = <<"save">>)]_vars
    /\ [][Serving(app)
            => /\ app'.save_age >= app.save_age
               /\ app'.dirty = app.dirty
               /\ app'.text = app.text /\ app'.doc = app.doc]_vars

\* C38 witness: both servers are serving a connected device, time has passed
\* since the save of the entry, and the mode is then left in one step that
\* shuts both servers down.
C38_Witness ==
    /\ app.ret \in FsWaitReturns
    /\ SubSeq(app.cleanup, 1, 2) = <<"https_shutdown", "http_shutdown">>
    /\ app.save_age > 0

(***************************************************************************)
(* Properties of the keyboard through the modes (SpecKeys).                *)
(***************************************************************************)
\* C32: whenever the main loop is about to read the keyboard, every event
\* read so far handled or dropped, the application's ctrl_held says what the
\* Ctrl key is: down or up by the press and release events read so far.
C32_CtrlTracksKey ==
    app.pc = "main" => app.ctrl_held = app.ctrl_down

LayoutIndexes == 0..(NumLayouts - 1)

HasPress(batch, code) == \E i \in DOMAIN batch : batch[i] = Ev(code, 1)

\* The layout state of the application after a read of the picker's loop.
SameLayout(a, b) ==
    /\ a.active_layout = b.active_layout
    /\ a.keymap = b.keymap
    /\ a.layout_pref = b.layout_pref

\* C40: active_layout is always one of the layouts and keymap is its table.
\* In the layout picker the selected index is within the list, and whatever
\* the loop reads next: the index stays within the list; Up alone moves it one
\* back and Down alone one on, both modulo the number of layouts, and change
\* nothing of the layout; Enter alone sets layout and table to the selected
\* one and writes it to the preference file; Escape alone, and K with Ctrl
\* held, leave layout, table and file as they are; and the layout, the table
\* or the file change only when Enter is among the events read.
C40_LayoutConsistent ==
    /\ app.active_layout \in LayoutIndexes
    /\ app.keymap = app.active_layout
    /\ app.pc = "picker" =>
          /\ app.selected \in LayoutIndexes
          /\ \A batch \in KeysBatches :
                /\ PickerScan(Found(Begin(World)), batch).app.selected \in LayoutIndexes
                /\ HasPress(batch, "ENTER")
                      \/ SameLayout(PickerScan(Found(Begin(World)), batch).app, app)
          /\ LET up    == PickerScan(Found(Begin(World)), <<Ev("UP", 1)>>).app
                 down  == PickerScan(Found(Begin(World)), <<Ev("DOWN", 1)>>).app
                 enter == PickerScan(Found(Begin(World)), <<Ev("ENTER", 1)>>).app
                 esc   == PickerScan(Found(Begin(World)), <<Ev("ESC", 1)>>).app
                 ctrlk == PickerScan(Found(Begin(World)),
                                     <<Ev("CTRL", 1), Ev("K", 1)>>).app
             IN  /\ up.pc = "picker" /\ SameLayout(up, app)
                 /\ up.selected = (app.selected + NumLayouts - 1) % NumLayouts
                 /\ down.pc = "picker" /\ SameLayout(down, app)
                 /\ down.selected = (app.selected + 1) % NumLayouts
                 /\ enter.ret = "picker_enter"
                 /\ enter.active_layout = app.selected
                 /\ enter.keymap = app.selected
                 /\ enter.layout_pref = app.selected
                 /\ esc.ret = "picker_cancel" /\ SameLayout(esc, app)
                 /\ ctrlk.ret = "picker_cancel" /\ SameLayout(ctrlk, app)

\* C40 witness: the picker has returned by Enter with the last layout of the
\* list selected: it is the active layout, its table is the keymap, and the
\* preference file names it.
C40_Witness ==
    /\ app.ret = "picker_enter"
    /\ app.active_layout = NumLayouts - 1
    /\ app.keymap = NumLayouts - 1
    /\ app.layout_pref = NumLayouts - 1

(***************************************************************************)
(* Properties of the loops of the modes (SpecApp).                         *)
(***************************************************************************)
\* The batch holds a press of the key at a place where Ctrl is down, Ctrl
\* being down or not when the batch begins.
CtrlPress(ctrl, batch, code) ==
    \E i \in DOMAIN batch :
       batch[i] = Ev(code, 1) /\ CtrlAfter(ctrl, SubSeq(batch, 1, i - 1))

\* C31: the sleep loop and the wait of the file server mode begin with no
\* Ctrl seen.  A read of the sleep loop leaves the mode exactly when it holds
\* a press of Q with Ctrl down by the events read inside the mode, and every
\* step that leaves the sleep loop is such a read or finds the stop flag set.
\* A read of the file server wait leaves the mode exactly when it holds a
\* press of F with Ctrl down in the same sense, and every step that leaves the
\* wait is such a read, or finds the timeout reached or the stop flag set.
C31_ModeExits ==
    /\ [][(app.pc \notin {"sleep", "fs"} /\ app'.pc \in {"sleep", "fs"})
            => ~app'.local_ctrl]_vars
    /\ [](app.pc = "sleep" =>
             \A batch \in Batches :
                (SleepRead(Found(Begin(World)), batch).app.pc # "sleep")
                   <=> CtrlPress(app.local_ctrl, batch, "Q"))
    /\ [](app.pc = "fs" =>
             \A batch \in Batches, failing \in AppStopFailures :
                (FsRead(Found(Begin(World)), batch, failing).app.pc # "fs")
                   <=> CtrlPress(app.local_ctrl, batch, "F"))
    /\ [][(app.pc = "sleep" /\ app'.pc # "sleep")
            => \/ ~app.running
               \/ \E batch \in Batches :
                     /\ CtrlPress(app.local_ctrl, batch, "Q")
                     /\ app' = SleepRead(Found(Begin(World)), batch).app]_vars
    /\ [][(app.pc = "fs" /\ app'.pc # "fs")
            => \/ ~app.running
               \/ FsTimedOut(app)
               \/ \E batch \in Batches, failing \in AppStopFailures :
                     /\ CtrlPress(app.local_ctrl, batch, "F")
                     /\ app' = FsRead(Found(Begin(World)), batch, failing).app]_vars

\* C31 witness: the sleep loop has just returned on Ctrl+Q, the process
\* running.
C31_Witness ==
    app.ret = "sleep_wake" /\ app.running

\* What a mode keeps for itself: where the control thread is and how the mode
\* returned, the locals of its loop, the servers and the log of its setup and
\* teardown, the keyboard handle (dropped on OSError), and the flag that asks
\* the main loop for a render.
ModeLocals ==
    {"pc", "ret", "local_ctrl", "selected", "wait_elapsed", "pending",
     "https", "http", "setup", "cleanup", "keyboard", "needs_display_update"}

LayoutFields == {"active_layout", "keymap", "layout_pref"}

\* The application is the same in a and b but for the fields named.
SameBut(a, b, fields) == \A f \in (DOMAIN a) \ fields : a[f] = b[f]

\* A press or an autorepeat of Enter is among the events.
EnterRead(batch) ==
    \E i \in DOMAIN batch : batch[i].code = "ENTER" /\ batch[i].value # 0

\* C37: whatever the loop of the sleep mode or of the file server mode reads,
\* the text, the cursor, the dirty flag, the document, the layout, its table
\* and every other field of the application but the mode's own stay as they
\* are.  Whatever the loop of the layout picker reads, the same holds but for
\* the layout, its table and the preference file, and these change only when
\* Enter is among the events read and the picker returns by it.  No step at
\* all taken in one of the three modes changes the layout or its table,
\* except the picker's return by Enter.
C37_EditorFramed ==
    /\ [](app.pc = "sleep" =>
             \A batch \in Batches :
                SameBut(SleepRead(Found(Begin(World)), batch).app,
                        Found(Begin(World)).app, ModeLocals))
    /\ [](app.pc = "fs" =>
             \A batch \in Batches, failing \in AppStopFailures :
                SameBut(FsRead(Found(Begin(World)), batch, failing).app,
                        Found(Begin(World)).app, ModeLocals))
    /\ [](app.pc = "picker" =>
             \A batch \in Batches :
                /\ SameBut(PickerScan(Found(Begin(World)), batch).app,
                           Found(Begin(World)).app, ModeLocals \cup LayoutFields)
                /\ \/ SameLayout(PickerScan(Found(Begin(World)), batch).app, app)
                   \/ /\ EnterRead(batch)
                      /\ PickerScan(Found(Begin(World)), batch).app.ret = "picker_enter")
    /\ [][(app.pc \in OtherModes /\ ~SameLayout(app', app))
            => app.pc = "picker" /\ app'.ret = "picker_enter"]_vars

\* C37 witness: the picker has returned by Enter with another layout than the
\* one it was opened with, the text typed before it and its dirty flag as they
\* were.
C37_Witness ==
    /\ app.ret = "picker_enter"
    /\ app.active_layout # 0
    /\ app.text # <<>> /\ app.dirty

(***************************************************************************)
(* Properties of the editor (SpecEdit).                                    *)
(***************************************************************************)
\* C36: after any sequence of key events (characters, the four spaces of Tab
\* among them, Enter, Backspace, Delete, Left, Right, Home, End, Up, Down) and
\* of document operations (save, new, switch and the load it does), the cursor
\* is at a place of the text: 0 <= cursor <= len(text).
C36_CursorInText ==
    0 <= app.cursor /\ app.cursor <= Len(app.text)

\* C36 witness: a word longer than the line is wrapped in two, and the cursor
\* is at the end of the text, on the second line.
C36_Witness ==
    /\ app.text = <<"a", "a", "a", "a">>
    /\ app.cursor = 4
    /\ WrapWithCursor(app).cursor_line = 1

\* The content last written to or read from the path of the document, empty
\* when nothing was.
LastContent(a) == a.files[a.doc].text

\* Every step that clears the dirty flag has written the text to the path the
\* document had: the flag is cleared by save_document, alone or at the head of
\* new_document and _switch_document.
DirtyClearedBySave ==
    [][(app.dirty /\ ~app'.dirty)
         => app'.files[app.doc] = [on |-> TRUE, text |-> app.text]]_vars

\* C35: whenever the text in memory differs from the content last written to
\* or read from the path of the current document, the dirty flag is set.
C35_DirtySound ==
    app.text # LastContent(app) => app.dirty

=============================================================================
